---- MODULE Spec2Model ----
(***************************************************************************)
(* The CLOESS interaction-analytics pipeline.                              *)
(*                                                                         *)
(* Server side: the durable store declared by database_complete_setup.sql  *)
(* (user_sessions, product_interactions, products) and the two write       *)
(* operations of the backend, ensureSession and recordInteraction.  The    *)
(* backend sources (backend/main.py, backend/simple_analytics.py) are not  *)
(* part of the source tree at hand, so the two operations follow sections  *)
(* 4.2, 4.3 and 7 of the specification; the tables, their defaults and     *)
(* their constraints follow the SQL.                                       *)
(*                                                                         *)
(* Client side: the four interaction observers, one per kind of page:      *)
(*   ProductHoverTracker   (React, refs hoverStartTime / hasViewed)        *)
(*   CLOESSAnalytics       (the script cloess-analytics.js)                *)
(*   AnalyticsProductCard  (React, with the useCLOESSAnalytics hook)       *)
(*   ProductCard           (front/src/ProductCatalog.jsx)                  *)
(* The display counters of ProductCard are kept; rendering is not.         *)
(***************************************************************************)
EXTENDS Integers, Sequences, FiniteSets, Bags, TLC

(***************************************************************************)
(* Bounds of the model.                                                    *)
(***************************************************************************)
MaxCalls == 2        \* server calls started in one behaviour
MaxTime == 2         \* the server clock runs 1..MaxTime
HoverMs == 2         \* the positive hover duration offered to the server
MaxSent == 3         \* requests one page sends, its session bootstrap included
Slack == 1           \* the page clock reaches threshold-Slack..threshold+Slack
MaxHovers == 1       \* pointer-enters counted by one ProductCard
MaxSiblings == 1     \* further products rendered beside the observed one
MaxUnused == 2       \* enters without a hover record that the history counts

\* Two network origins; product 1 is in the catalog, product 2 is referenced
\* by requests and is not.
Origins == {1, 2}
Catalog == {1}
ProductRefs == {1, 2}
Kinds == {"view", "hover", "click"}
Durations == {-1, 0, HoverMs}

\* What the geolocation collaborator answers for an origin: its country,
\* or nothing (the lookup failed; the location columns stay NULL).
UnknownCountry == "unknown"
GeoResults == {"TN", UnknownCountry}

VARIABLES
    products,             \* set of product ids present in table products
    user_sessions,        \* table user_sessions: sequence of rows, id = index
    product_interactions, \* table product_interactions: sequence of rows
    now,                  \* server clock
    inflight,             \* server calls that have started and not completed
    nextCall,             \* id of the next server call
    lastDone,             \* the call that completed last, with its outcome
    applied,              \* history: accepted increments per (origin, product)
    ensured               \* history: completed session resolutions per origin

serverVars == <<products, user_sessions, product_interactions, now, inflight,
                nextCall, lastDone, applied, ensured>>

VARIABLES
    page,                 \* the observer implementation the page runs
    clock,                \* Date.now() in the page
    session,              \* state of the page's POST /analytics/session
    sent,                 \* bag of the requests the page has handed to fetch
    crossings,            \* history: intersection callbacks with isIntersecting
    clicks,               \* history: parity of the click events per product
                          \* of ProductHoverTracker, CLOESSAnalytics and
                          \* AnalyticsProductCard
    siblings,             \* further component instances mounted on the page
    pending,              \* track-interaction fetches that have not settled
    thrown,               \* an error escaped a handler or an async method
    lost,                 \* history: a track-interaction fetch of
                          \* ProductHoverTracker or CLOESSAnalytics was rejected
    hoverStartTime,       \* ProductHoverTracker: ref, 0 stands for null
    hasViewed,            \* ProductHoverTracker: ref
    hoverTimers,          \* CLOESSAnalytics: Map product id -> start, 0 = absent
    isInitialized,        \* CLOESSAnalytics: instance flag
    analytics,            \* useCLOESSAnalytics: state, TRUE once the instance is set
    hookInitialized,      \* useCLOESSAnalytics: state isInitialized
    instanceInitialized,  \* useCLOESSAnalytics: isInitialized of its instance
    cardHoverStartTime,   \* AnalyticsProductCard: state hoverStartTime
    cardRendered,         \* AnalyticsProductCard: the state its last render
                          \* read, which its DOM handlers close over
    cardObserver,         \* AnalyticsProductCard: the hook state closed over
                          \* by trackProductView of the attached observer
    catalogInitialized,   \* useProductAnalytics: state isInitialized
    catalogHoverStartTime,\* ProductCard: state hoverStartTime
    totalHoverTime,       \* ProductCard: state
    hoverCount,           \* ProductCard: state
    isVisible,            \* ProductCard: state
    catalogRendered,      \* ProductCard: the state its last render read,
                          \* which its DOM handlers close over
    catalogObserver,      \* ProductCard: the state closed over by the
                          \* callback of the attached observer
    hoverEnds             \* history: leaves of the ProductCard whose handler
                          \* found a hover start

pageVars == <<page, siblings, thrown, lost, clock, session, sent, pending, crossings,
             clicks>>

trackerVars == <<hoverStartTime, hasViewed>>

scriptVars == <<hoverTimers, isInitialized>>

cardVars == <<analytics, hookInitialized, instanceInitialized, cardHoverStartTime,
              cardRendered, cardObserver>>

catalogVars == <<catalogInitialized, catalogHoverStartTime, totalHoverTime,
                 hoverCount, isVisible, catalogRendered, catalogObserver,
                 hoverEnds>>

\* History of the pointer events of ProductHoverTracker and CLOESSAnalytics,
\* kept where `observed` is set.
VARIABLES
    observed,             \* whether the history below is kept
    entered,              \* per product: time of the latest enter that no
                          \* leave has followed, 0 if there is none
    unused,               \* per product: enters so far minus hover records
                          \* sent, counted up to MaxUnused
    lastHover             \* the last pointer event: its kind and product

hoverLogVars == <<observed, entered, unused, lastHover>>

observerVars == <<pageVars, trackerVars, scriptVars, cardVars, catalogVars,
                  hoverLogVars>>

\* AnalyticsDashboard.jsx
VARIABLES
    timeRange,            \* the selected lookback window
    dashboard,            \* the `analytics` state of the dashboard
    loading,              \* the `loading` state: the loading screen is shown
                          \* in place of the dashboard and its select
    fetched,              \* history: window and outcome of the last fetch
    dashboardRendered,    \* the timeRange and loading its last render read
    intervalRange         \* the timeRange read by the render whose effect
                          \* on [timeRange] ran last: the range of the
                          \* fetchAnalytics its interval calls

dashboardVars == <<timeRange, dashboard, loading, fetched, dashboardRendered,
                   intervalRange>>

VARIABLES
    outstanding,          \* bag of the lookback windows of the fetchAnalytics
                          \* calls that have been issued and have not settled
    selections,           \* history: how often the user has changed the
                          \* time range
    current               \* history: a fetch issued for the selected range
                          \* has settled ok since the range was selected

fetchVars == <<outstanding, selections, current>>

\* The user has changed the time range.
reselected == selections > 0

\* CloessLanding (part_005)
VARIABLES
    gifLoaded,            \* state: the intro gif has fired onLoad
    showSellerBot,        \* state: isIntersecting of the grid's last entry
    showChatbot,          \* state: the popup is shown
    chatTimer,            \* the pending setTimeout: when it was set, 0 = none
    renderedDeps,         \* [gifLoaded, showSellerBot] as the last render
                          \* read them
    effectDeps,           \* [gifLoaded, showSellerBot] of the render whose
                          \* effect ran last
    visibleSince          \* history: since when the grid has been in view

landingVars == <<gifLoaded, showSellerBot, showChatbot, chatTimer, renderedDeps,
                 effectDeps, visibleSince>>

\* The analytics query service
VARIABLES
    closedWindow,         \* whether a timestamp exactly as old as the window
                          \* is long lies within it
    namesFirst            \* whether the insert of an aggregate row names
                          \* first_interaction

serviceVars == <<closedWindow, namesFirst>>

panelVars == <<dashboardVars, fetchVars, landingVars, serviceVars>>

clientVars == <<observerVars, panelVars>>

vars == <<serverVars, clientVars>>

(***************************************************************************)
(* The durable store.                                                      *)
(***************************************************************************)

\* ip_address INET NOT NULL UNIQUE: an insert for an origin that already has
\* a row hits the constraint.
OriginConflictAbsent(S, o) == FALSE

OriginConflict(S, o) == \E i \in DOMAIN S : S[i].ip_address = o

\* UNIQUE(user_session_id, product_id): an insert for a pair that already
\* has a row hits the constraint.
PairConflictAbsent(A, sid, p) == FALSE

PairConflict(A, sid, p) ==
    \E i \in DOMAIN A : A[i].user_session_id = sid /\ A[i].product_id = p

\* product_id INTEGER REFERENCES products(id)
ProductExistsUnchecked(P, p) == TRUE

ProductExists(P, p) == p \in P

\* country and first_seen / last_seen of a freshly inserted session row.
NewSession(o, t, g) ==
    [ip_address |-> o, country |-> g, first_seen |-> t, last_seen |-> t]

\* Column defaults of product_interactions.
DefaultHoverTime == 0
DefaultViews == 0
DefaultClicks == 0

SessionRows(S, o) == {i \in DOMAIN S : S[i].ip_address = o}

\* SELECT id FROM user_sessions WHERE ip_address = o (first row found).
SessionId(S, o) ==
    IF SessionRows(S, o) = {} THEN 0
    ELSE CHOOSE i \in SessionRows(S, o) : \A j \in SessionRows(S, o) : i <= j

PairRows(A, sid, p) ==
    {i \in DOMAIN A : A[i].user_session_id = sid /\ A[i].product_id = p}

PairRow(A, sid, p) ==
    CHOOSE i \in PairRows(A, sid, p) : \A j \in PairRows(A, sid, p) : i <= j

\* The later value overwrites the stored one.
LastWritten(a, b) == b

Max(a, b) == IF a >= b THEN a ELSE b

(***************************************************************************)
(* 4.2 Session Identity Service: ensureSession.                            *)
(***************************************************************************)

\* UPDATE user_sessions SET last_seen = t WHERE ip_address = o
UpdateLastSeen(S, o, t) ==
    [i \in DOMAIN S |->
        IF S[i].ip_address = o THEN [S[i] EXCEPT !.last_seen = t] ELSE S[i]]

\* INSERT INTO user_sessions ...; the loser of the uniqueness constraint is
\* turned into an update of the winner's row.
\* A variant that gives up the creation when the lookup gave nothing.
InsertSessionNeedsGeo(S, o, t, g) ==
    IF OriginConflict(S, o) THEN UpdateLastSeen(S, o, t)
    ELSE IF g = UnknownCountry THEN S
    ELSE Append(S, NewSession(o, t, g))

InsertSession(S, o, t, g) ==
    IF OriginConflict(S, o) THEN UpdateLastSeen(S, o, t)
    ELSE Append(S, NewSession(o, t, g))

\* saw: whether the caller found a row for o when it looked; g: the answer
\* of the geolocation lookup.
EnsureSession(S, o, t, saw, g) ==
    IF saw THEN UpdateLastSeen(S, o, t) ELSE InsertSession(S, o, t, g)

(***************************************************************************)
(* 4.3 Interaction Aggregator: recordInteraction.                          *)
(***************************************************************************)

\* A variant that only asks for a duration to be present.
ValidDurationAnyNumber(c) == c.has_duration

ValidDuration(c) == c.has_duration /\ c.duration_ms > 0

\* An update that counts every record as a view as well.
IncrementAndView(row, c) ==
    [row EXCEPT
        !.total_views = @ + 1,
        !.total_clicks = @ + (IF c.kind = "click" THEN 1 ELSE 0),
        !.total_hover_time_ms = @ + (IF c.kind = "hover" THEN c.duration_ms ELSE 0),
        !.last_interaction = Max(@, c.occurredAt)]

\* The additive update of one aggregate row.
Increment(row, c) ==
    [row EXCEPT
        !.total_views = @ + (IF c.kind = "view" THEN 1 ELSE 0),
        !.total_clicks = @ + (IF c.kind = "click" THEN 1 ELSE 0),
        !.total_hover_time_ms = @ + (IF c.kind = "hover" THEN c.duration_ms ELSE 0),
        !.last_interaction = Max(@, c.occurredAt)]

\* first_interaction TIMESTAMP WITH TIME ZONE DEFAULT CURRENT_TIMESTAMP: an
\* insert that names the column stores the record's occurredAt, an insert
\* that does not leaves the row with the default, the time t of the write.
\* 4.3 says that the column is set on row creation and not to which of the
\* two; the backend does the one or the other in every insert.
FirstInteraction(c, t) == IF namesFirst THEN c.occurredAt ELSE t

\* The row an insert written at t creates: the counters start from their
\* defaults, last_interaction is occurredAt.
NewAggregate(sid, c, t) ==
    Increment([user_session_id |-> sid, product_id |-> c.product,
               total_hover_time_ms |-> DefaultHoverTime,
               total_views |-> DefaultViews,
               total_clicks |-> DefaultClicks,
               first_interaction |-> FirstInteraction(c, t),
               last_interaction |-> c.occurredAt], c)

\* UPDATE product_interactions SET col = col + x WHERE (session, product)
IncrementPair(A, sid, c) ==
    [i \in DOMAIN A |->
        IF A[i].user_session_id = sid /\ A[i].product_id = c.product
        THEN Increment(A[i], c) ELSE A[i]]

\* Insert-or-update-in-place on the (session, product) key.
UpsertAggregate(A, sid, c, t) ==
    IF c.sawRow \/ PairConflict(A, sid, c.product)
    THEN IncrementPair(A, sid, c)
    ELSE Append(A, NewAggregate(sid, c, t))

\* A variant that turns away a record whose origin has no session yet.
RecordInteractionNeedsSession(S, A, P, c, t) ==
    LET sid == SessionId(S, c.origin)
    IN  IF ~ProductExists(P, c.product) \/ sid = 0
        THEN [status |-> "NotFound", sessions |-> S, aggregates |-> A]
        ELSE IF c.kind = "hover" /\ ~ValidDuration(c)
        THEN [status |-> "InvalidArgument", sessions |-> S, aggregates |-> A]
        ELSE [status |-> "ok", sessions |-> UpdateLastSeen(S, c.origin, t),
              aggregates |-> UpsertAggregate(A, sid, c, t)]

\* The whole call as one transaction: resolve the session, validate the
\* product, fold the record into the aggregate; a rejected call writes
\* nothing.
RecordInteraction(S, A, P, c, t) ==
    LET S1 == EnsureSession(S, c.origin, t, c.sawSession, c.geo)
        sid == SessionId(S1, c.origin)
    IN  IF ~ProductExists(P, c.product)
        THEN [status |-> "NotFound", sessions |-> S, aggregates |-> A]
        ELSE IF c.kind = "hover" /\ ~ValidDuration(c)
        THEN [status |-> "InvalidArgument", sessions |-> S, aggregates |-> A]
        ELSE [status |-> "ok", sessions |-> S1,
              aggregates |-> UpsertAggregate(A, sid, c, t)]

(***************************************************************************)
(* Server calls.  A call starts (it reads what exists), and later          *)
(* completes (it writes); other calls may start and complete in between.   *)
(* A call that fails validation never gets to write.                       *)
(***************************************************************************)

NoCall ==
    [op |-> "none", origin |-> 0, product |-> 0, kind |-> "none",
     has_duration |-> FALSE, duration_ms |-> 0, occurredAt |-> 0,
     sawSession |-> FALSE, sawRow |-> FALSE, geo |-> UnknownCountry]

\* What is remembered of the call that completed last: its operation, kind,
\* product and time of occurrence, whether it was a hover without a positive
\* duration, its
\* status, and whether it raced (it found no row when it started and found
\* one when it wrote).
NoDone ==
    [op |-> "none", kind |-> "none", product |-> 0, occurredAt |-> 0,
     bad_hover |-> FALSE, status |-> "none", raced |-> FALSE]

Done(c, status, raced) ==
    [op |-> c.op, kind |-> c.kind, product |-> c.product,
     occurredAt |-> c.occurredAt,
     bad_hover |-> c.kind = "hover" /\ ~(c.has_duration /\ c.duration_ms > 0),
     status |-> status, raced |-> raced]

Started(c) == inflight (+) SetToBag({c})
Completed(c) == inflight (-) SetToBag({c})
InFlight == BagToSet(inflight)

NoApplied == [hover |-> 0, views |-> 0, clicks |-> 0]
\* bootstraps counts to 2; latestBootstrap is the time of the origin's latest
\* bootstrap while no later call has resolved the session, else 0.
NoEnsured == [bootstraps |-> 0, latestBootstrap |-> 0]

ServerInit ==
    /\ products = Catalog
    /\ user_sessions = <<>>
    /\ product_interactions = <<>>
    /\ now = 1
    /\ inflight = EmptyBag
    /\ nextCall = 1
    /\ lastDone = NoDone
    /\ applied = [k \in Origins \X ProductRefs |-> NoApplied]
    /\ ensured = [o \in Origins |-> NoEnsured]

Tick ==
    /\ now < MaxTime
    /\ now' = now + 1
    /\ UNCHANGED <<products, user_sessions, product_interactions, inflight,
                   nextCall, lastDone, applied, ensured>>
    /\ UNCHANGED clientVars

\* POST /analytics/session arrives from origin o.
SessionCall(o) ==
    [NoCall EXCEPT !.op = "session", !.origin = o,
                   !.sawSession = SessionRows(user_sessions, o) # {}]

BeginEnsure(o) ==
    /\ nextCall <= MaxCalls
    /\ \E g \in GeoResults :
          inflight' = Started([SessionCall(o) EXCEPT !.geo = g])
    /\ nextCall' = nextCall + 1
    /\ UNCHANGED <<products, user_sessions, product_interactions, now,
                   lastDone, applied, ensured>>
    /\ UNCHANGED clientVars

CompleteEnsure(c) ==
    /\ c.op = "session"
    /\ user_sessions' = EnsureSession(user_sessions, c.origin, now, c.sawSession,
                                      c.geo)
    /\ inflight' = Completed(c)
    /\ lastDone' = Done(c, "ok", ~c.sawSession /\ SessionRows(user_sessions, c.origin) # {})
    /\ ensured' = [ensured EXCEPT ![c.origin] =
                     [bootstraps |-> IF @.bootstraps = 0 THEN 1 ELSE 2,
                      latestBootstrap |-> now]]
    /\ UNCHANGED <<products, product_interactions, now, nextCall, applied>>
    /\ UNCHANGED clientVars

\* POST /analytics/track-interaction arrives from origin o.
RecordCall(o, p, k, hasD, d) ==
    LET saw == SessionRows(user_sessions, o) # {}
        sid == SessionId(user_sessions, o)
    IN  [NoCall EXCEPT !.op = "record", !.origin = o, !.product = p,
                       !.kind = k, !.has_duration = hasD, !.duration_ms = d,
                       !.occurredAt = now, !.sawSession = saw,
                       !.sawRow = saw /\ PairRows(product_interactions, sid, p) # {}]

Outcome(c) ==
    RecordInteraction(user_sessions, product_interactions, products, c, now)

\* A call that passes validation reads, and writes in a later step.
BeginRecord(o, p, k, hasD, d) ==
    /\ nextCall <= MaxCalls
    /\ Outcome(RecordCall(o, p, k, hasD, d)).status = "ok"
    /\ \E g \in GeoResults :
          inflight' = Started([RecordCall(o, p, k, hasD, d) EXCEPT !.geo = g])
    /\ nextCall' = nextCall + 1
    /\ UNCHANGED <<products, user_sessions, product_interactions, now,
                   lastDone, applied, ensured>>
    /\ UNCHANGED clientVars

Finish(c) ==
    /\ lastDone' = Done(c, Outcome(c).status,
                        ~c.sawRow /\ PairRows(product_interactions,
                                              SessionId(user_sessions, c.origin),
                                              c.product) # {})
    /\ user_sessions' = Outcome(c).sessions
    /\ product_interactions' = Outcome(c).aggregates
    /\ UNCHANGED <<products, now>>

RecordOk(c) ==
    /\ c.op = "record"
    /\ Outcome(c).status = "ok"
    /\ inflight' = Completed(c)
    /\ Finish(c)
    /\ applied' = [applied EXCEPT ![<<c.origin, c.product>>] =
          [hover |-> @.hover + (IF c.kind = "hover" THEN c.duration_ms ELSE 0),
           views |-> @.views + (IF c.kind = "view" THEN 1 ELSE 0),
           clicks |-> @.clicks + (IF c.kind = "click" THEN 1 ELSE 0)]]
    /\ ensured' = [ensured EXCEPT ![c.origin].latestBootstrap = 0]
    /\ UNCHANGED nextCall
    /\ UNCHANGED clientVars

\* A call that fails validation is answered at once.
Reject(c, status) ==
    /\ nextCall <= MaxCalls
    /\ Outcome(c).status = status
    /\ Finish(c)
    /\ nextCall' = nextCall + 1
    /\ UNCHANGED <<inflight, applied, ensured>>
    /\ UNCHANGED clientVars

\* The durable store cannot be reached: the request fails and nothing is
\* written.
Unavailable(c) ==
    /\ nextCall <= MaxCalls
    /\ nextCall' = nextCall + 1
    /\ lastDone' = Done(c, "Unavailable", FALSE)
    /\ UNCHANGED <<products, user_sessions, product_interactions, now,
                   inflight, applied, ensured>>
    /\ UNCHANGED clientVars

EnsureUnavailable(o) == Unavailable(SessionCall(o))

RecordUnavailable(o, p, k, hasD, d) == Unavailable(RecordCall(o, p, k, hasD, d))

RecordNotFound(o, p, k, hasD, d) == Reject(RecordCall(o, p, k, hasD, d), "NotFound")

RecordInvalid(o, p, k, hasD, d) == Reject(RecordCall(o, p, k, hasD, d), "InvalidArgument")

\* A cascade that sweeps the aggregates of every product.
CascadeAll(A, p) == SelectSeq(A, LAMBDA row : FALSE)

\* product_id REFERENCES products(id) ON DELETE CASCADE: the rows that
\* reference the deleted product go with it.
Cascade(A, p) == SelectSeq(A, LAMBDA row : row.product_id # p)

\* DELETE FROM products WHERE id = p, by the owner of the catalog.
DeleteProduct(p) ==
    /\ p \in products
    /\ products' = products \ {p}
    /\ product_interactions' = Cascade(product_interactions, p)
    /\ applied' = [k \in DOMAIN applied |->
                      IF k[2] = p THEN NoApplied ELSE applied[k]]
    /\ UNCHANGED <<user_sessions, now, inflight, nextCall, lastDone, ensured>>
    /\ UNCHANGED clientVars

\* A record that was in flight when its product was deleted: the write fails
\* on the reference to products and nothing is stored.
RecordGone(c) ==
    /\ c.op = "record"
    /\ Outcome(c).status = "NotFound"
    /\ inflight' = Completed(c)
    /\ Finish(c)
    /\ UNCHANGED <<nextCall, applied, ensured>>
    /\ UNCHANGED clientVars

\* The track-interaction requests offered to the server: view and click
\* carry no duration, hover carries none or one of Durations.
Requests ==
    {r \in [origin : Origins, product : ProductRefs, kind : Kinds,
            has_duration : BOOLEAN, duration_ms : Durations] :
        /\ r.kind # "hover" => ~r.has_duration
        /\ ~r.has_duration => r.duration_ms = 0}

Next ==
    \/ Tick
    \/ \E o \in Origins : BeginEnsure(o)
    \/ \E c \in InFlight : CompleteEnsure(c)
    \/ \E r \in Requests :
          BeginRecord(r.origin, r.product, r.kind, r.has_duration, r.duration_ms)
    \/ \E c \in InFlight : RecordOk(c)
    \/ \E r \in Requests :
          RecordNotFound(r.origin, r.product, r.kind, r.has_duration, r.duration_ms)
    \/ \E r \in Requests :
          RecordInvalid(r.origin, r.product, r.kind, r.has_duration, r.duration_ms)
    \/ \E o \in Origins : EnsureUnavailable(o)
    \/ \E r \in Requests :
          RecordUnavailable(r.origin, r.product, r.kind, r.has_duration, r.duration_ms)

(***************************************************************************)
(* The page: clock, fetch, and the products the observers are attached to. *)
(***************************************************************************)

Pages == {"tracker", "script", "card", "catalog"}

\* The React components are attached to one product each; the script
\* observes every element of the document that carries data-product-id.
CardProducts == {1}
ScriptProducts == {1, 2}
TrackedProducts == CardProducts \cup ScriptProducts

HoverMinTracker == 100
HoverMinScript == 500
HoverMinCard == 500
HoverMinCatalog == 500

HoverMin(pg) ==
    CASE pg = "tracker" -> HoverMinTracker
      [] pg = "script"  -> HoverMinScript
      [] pg = "card"    -> HoverMinCard
      [] OTHER          -> HoverMinCatalog

\* The instants at which the page reads Date.now(): the page opens at 1 and
\* events happen around one significance threshold later.
Times(pg) == {1} \cup {1 + HoverMin(pg) + k : k \in (0 - Slack)..Slack}

TrackUrl == "/analytics/track-interaction"

SessionRequest ==
    [url |-> "/analytics/session", product_id |-> 0,
     interaction_type |-> "none", has_duration |-> FALSE, duration_ms |-> 0]

\* A body whose duration_ms is always null.
TrackRequestNoDuration(p, type, hasD, d) ==
    [url |-> TrackUrl, product_id |-> p,
     interaction_type |-> type, has_duration |-> FALSE, duration_ms |-> 0]

\* The body of POST /analytics/track-interaction; duration_ms is null when
\* has_duration is FALSE.
TrackRequest(p, type, hasD, d) ==
    [url |-> TrackUrl, product_id |-> p,
     interaction_type |-> type, has_duration |-> hasD, duration_ms |-> d]

CanFetch == BagCardinality(sent) < MaxSent

\* fetch: the request leaves at once; a track-interaction request settles
\* in a later step, the session request in the observer's own step.
Fetch(r) ==
    /\ CanFetch
    /\ sent' = sent (+) SetToBag({r})
    /\ pending' = pending + (IF r.url = TrackUrl THEN 1 ELSE 0)

SessionOutcomes == {"ok", "http_error", "network_error"}

Advance ==
    /\ page \in Pages
    /\ UNCHANGED <<serverVars, panelVars, hoverLogVars>>
    /\ \E t \in Times(page) : t > clock /\ clock' = t
    /\ UNCHANGED <<page, siblings, lost, thrown, session, sent, pending, crossings, clicks>>
    /\ UNCHANGED <<trackerVars, scriptVars, cardVars, catalogVars>>

\* The grid renders one component per product (products.map), and every
\* instance of ProductHoverTracker, of useCLOESSAnalytics and of
\* useProductAnalytics runs its own session effect on mount.  The script
\* is constructed once per page.
MountSibling ==
    /\ page \in {"tracker", "card", "catalog"}
    /\ UNCHANGED <<serverVars, panelVars, hoverLogVars>>
    /\ siblings < MaxSiblings
    /\ siblings' = siblings + 1
    /\ Fetch(SessionRequest)
    /\ UNCHANGED <<page, thrown, lost, clock, session, crossings, clicks>>
    /\ UNCHANGED <<trackerVars, scriptVars, cardVars, catalogVars>>

\* History of the intersection callbacks delivered for product p.
Crossed(p, isIntersecting) ==
    crossings' = IF isIntersecting
                 THEN [crossings EXCEPT ![p] = IF @ < 2 THEN @ + 1 ELSE @]
                 ELSE crossings

\* History of the click events delivered for product p: their parity.
Clicked(p) == clicks' = [clicks EXCEPT ![p] = 1 - @]

NoHover == [event |-> "none", product |-> 0]

\* History of a pointer-enter on product p: "reenter" when no leave has
\* followed the enter before it.
Entered(p) ==
    IF observed
    THEN /\ entered' = [entered EXCEPT ![p] = clock]
         /\ unused' = [unused EXCEPT ![p] = IF @ < MaxUnused THEN @ + 1 ELSE @]
         /\ lastHover' = [event |-> IF entered[p] # 0 THEN "reenter" ELSE "enter",
                          product |-> p]
         /\ UNCHANGED observed
    ELSE UNCHANGED hoverLogVars

\* History of a pointer-leave on product p: "stray" when no enter is open;
\* a request that the step sends uses up one enter.
Left(p) ==
    IF observed
    THEN /\ entered' = [entered EXCEPT ![p] = 0]
         /\ unused' = [unused EXCEPT ![p] = IF sent' # sent THEN @ - 1 ELSE @]
         /\ lastHover' = [event |-> IF entered[p] # 0 THEN "leave" ELSE "stray",
                          product |-> p]
         /\ UNCHANGED observed
    ELSE UNCHANGED hoverLogVars

(***************************************************************************)
(* ProductHoverTracker.                                                    *)
(***************************************************************************)

Tracker_trackInteraction(p, type, hasD, d) == Fetch(TrackRequest(p, type, hasD, d))

\* initSession: the outcome of the fetch is awaited and ignored.
Tracker_ThrowsUncaught(outcome) == outcome = "network_error"

\* Both fetches of the tracker are awaited inside try / catch with an empty
\* catch block: a rejected fetch raises nothing.
Tracker_Throws(outcome) == FALSE

\* trackInteraction after its await: nothing follows the fetch.
Tracker_trackInteractionSettles(outcome) ==
    /\ page = "tracker"
    /\ UNCHANGED <<serverVars, panelVars, hoverLogVars>>
    /\ pending > 0
    /\ pending' = pending - 1
    /\ thrown' = (thrown \/ Tracker_Throws(outcome))
    /\ lost' = (lost \/ outcome = "network_error")
    /\ UNCHANGED <<page, siblings, clock, session, sent, crossings, clicks>>
    /\ UNCHANGED <<trackerVars, scriptVars, cardVars, catalogVars>>

Tracker_initSession(outcome) ==
    /\ page = "tracker"
    /\ UNCHANGED <<serverVars, panelVars, hoverLogVars>>
    /\ session = "pending"
    /\ session' = outcome
    /\ thrown' = (thrown \/ Tracker_Throws(outcome))
    /\ UNCHANGED <<page, siblings, lost, clock, sent, pending, crossings, clicks>>
    /\ UNCHANGED <<trackerVars, scriptVars, cardVars, catalogVars>>

Tracker_ShouldViewEvery(isIntersecting, viewed) == isIntersecting

Tracker_ShouldView(isIntersecting, viewed) == isIntersecting /\ ~viewed

\* The callback of the IntersectionObserver.
Tracker_onIntersect(p, isIntersecting) ==
    /\ page = "tracker"
    /\ UNCHANGED <<serverVars, panelVars, hoverLogVars>>
    /\ IF Tracker_ShouldView(isIntersecting, hasViewed)
       THEN /\ hasViewed' = TRUE
            /\ Tracker_trackInteraction(p, "view", FALSE, 0)
       ELSE UNCHANGED <<hasViewed, sent, pending>>
    /\ Crossed(p, isIntersecting)
    /\ UNCHANGED clicks
    /\ UNCHANGED <<page, siblings, lost, thrown, clock, session, hoverStartTime>>
    /\ UNCHANGED <<scriptVars, cardVars, catalogVars>>

\* The view effect runs again (trackInteraction changed identity): the old
\* observer is disconnected and a new one observes the element.  Both refs
\* live outside the effect.
Tracker_viewEffect ==
    /\ page = "tracker"
    /\ UNCHANGED <<serverVars, panelVars, hoverLogVars>>
    /\ UNCHANGED <<pageVars, trackerVars, scriptVars, cardVars, catalogVars>>

\* A handler that keeps the start of a hover that is still pending.
Tracker_NewStartKeepsPending(start, t) == IF start # 0 THEN start ELSE t

\* hoverStartTime.current = Date.now()
Tracker_NewStart(start, t) == t

Tracker_handleMouseEnter ==
    /\ page = "tracker"
    /\ UNCHANGED <<serverVars, panelVars>>
    /\ hoverStartTime' = Tracker_NewStart(hoverStartTime, clock)
    /\ \E p \in CardProducts : Entered(p)
    /\ UNCHANGED <<pageVars, hasViewed, scriptVars, cardVars, catalogVars>>

Tracker_MeaningfulFrom(duration) == duration >= HoverMinTracker

Tracker_Meaningful(duration) == duration > HoverMinTracker

\* A handler that leaves the start in place after the leave.
Tracker_StartKept(start) == start

\* hoverStartTime.current = null
Tracker_StartCleared(start) == 0

Tracker_handleMouseLeave(p) ==
    /\ page = "tracker"
    /\ UNCHANGED <<serverVars, panelVars>>
    /\ IF hoverStartTime # 0
       THEN LET duration == clock - hoverStartTime
            IN  /\ IF Tracker_Meaningful(duration)
                   THEN Tracker_trackInteraction(p, "hover", TRUE, duration)
                   ELSE UNCHANGED <<sent, pending>>
                /\ hoverStartTime' = Tracker_StartCleared(hoverStartTime)
       ELSE UNCHANGED <<hoverStartTime, sent, pending>>
    /\ Left(p)
    /\ UNCHANGED <<page, siblings, lost, thrown, clock, session, crossings, clicks, hasViewed>>
    /\ UNCHANGED <<scriptVars, cardVars, catalogVars>>

Tracker_handleClick(p) ==
    /\ page = "tracker"
    /\ UNCHANGED <<serverVars, panelVars, hoverLogVars>>
    /\ Tracker_trackInteraction(p, "click", FALSE, 0)
    /\ Clicked(p)
    /\ UNCHANGED <<page, siblings, lost, thrown, clock, session, crossings>>
    /\ UNCHANGED <<trackerVars, scriptVars, cardVars, catalogVars>>


(***************************************************************************)
(* CLOESSAnalytics (cloess-analytics.js), constructed when the DOM is      *)
(* ready and followed by setupAutoTracking.                                *)
(***************************************************************************)

\* initializeSession, from the response of the fetch on.
Script_ThrowsUncaught(outcome) == outcome = "network_error"

\* initializeSession and trackInteraction catch the rejection and warn.
Script_Throws(outcome) == FALSE

\* trackInteraction after its await: console.log, or console.warn in catch.
trackInteractionSettles(outcome) ==
    /\ page \in {"script", "card"}
    /\ UNCHANGED <<serverVars, panelVars, hoverLogVars>>
    /\ pending > 0
    /\ pending' = pending - 1
    /\ thrown' = (thrown \/ Script_Throws(outcome))
    /\ lost' = (lost \/ outcome = "network_error")
    /\ UNCHANGED <<page, siblings, clock, session, sent, crossings, clicks>>
    /\ UNCHANGED <<trackerVars, scriptVars, cardVars, catalogVars>>

initializeSession(outcome) ==
    /\ page = "script"
    /\ UNCHANGED <<serverVars, panelVars, hoverLogVars>>
    /\ session = "pending"
    /\ session' = outcome
    /\ thrown' = (thrown \/ Script_Throws(outcome))
    /\ isInitialized' = IF outcome = "ok" THEN TRUE ELSE isInitialized
    /\ UNCHANGED <<page, siblings, lost, clock, sent, pending, crossings, clicks, hoverTimers>>
    /\ UNCHANGED <<trackerVars, cardVars, catalogVars>>

\* A trackInteraction without the test of isInitialized.
trackInteractionUngated(initialized, p, type, hasD, d) ==
    Fetch(TrackRequest(p, type, hasD, d))

\* trackInteraction returns early while the instance is not initialized.
trackInteraction(initialized, p, type, hasD, d) ==
    IF ~initialized
    THEN UNCHANGED <<sent, pending>>
    ELSE Fetch(TrackRequest(p, type, hasD, d))

trackProductHoverStart(p) ==
    /\ page = "script"
    /\ UNCHANGED <<serverVars, panelVars>>
    /\ hoverTimers' = [hoverTimers EXCEPT ![p] = clock]
    /\ Entered(p)
    /\ UNCHANGED <<pageVars, isInitialized, trackerVars, cardVars, catalogVars>>

Script_Meaningful(duration) == duration > HoverMinScript

\* A test that takes an absent start for a start at time 0.
Script_HasStartAlways(startTime) == TRUE

\* if (startTime)
Script_HasStart(startTime) == startTime # 0

trackProductHoverEnd(p) ==
    /\ page = "script"
    /\ UNCHANGED <<serverVars, panelVars>>
    /\ LET startTime == hoverTimers[p]
       IN  IF Script_HasStart(startTime)
           THEN LET duration == clock - startTime
                IN  /\ hoverTimers' = [hoverTimers EXCEPT ![p] = 0]
                    /\ IF Script_Meaningful(duration)
                       THEN trackInteraction(isInitialized, p, "hover", TRUE, duration)
                       ELSE UNCHANGED <<sent, pending>>
           ELSE UNCHANGED <<hoverTimers, sent, pending>>
    /\ Left(p)
    /\ UNCHANGED <<page, siblings, lost, thrown, clock, session, crossings, clicks, isInitialized>>
    /\ UNCHANGED <<trackerVars, cardVars, catalogVars>>

trackProductClick(p) ==
    /\ page = "script"
    /\ UNCHANGED <<serverVars, panelVars, hoverLogVars>>
    /\ trackInteraction(isInitialized, p, "click", FALSE, 0)
    /\ Clicked(p)
    /\ UNCHANGED <<page, siblings, lost, thrown, clock, session, crossings>>
    /\ UNCHANGED <<trackerVars, scriptVars, cardVars, catalogVars>>

trackProductView(initialized, p) == trackInteraction(initialized, p, "view", FALSE, 0)

\* The callback of the observer that setupAutoTracking creates, for one entry.
Script_onIntersect(p, isIntersecting) ==
    /\ page = "script"
    /\ UNCHANGED <<serverVars, panelVars, hoverLogVars>>
    /\ IF isIntersecting
       THEN trackProductView(isInitialized, p)
       ELSE UNCHANGED <<sent, pending>>
    /\ Crossed(p, isIntersecting)
    /\ UNCHANGED clicks
    /\ UNCHANGED <<page, siblings, lost, thrown, clock, session>>
    /\ UNCHANGED <<trackerVars, scriptVars, cardVars, catalogVars>>


(***************************************************************************)
(* AnalyticsProductCard and withProductAnalytics (ReactAnalytics.jsx),     *)
(* each with its own useCLOESSAnalytics hook.                              *)
(***************************************************************************)

\* initAnalytics after the instance's initializeSession has settled:
\* initializeSession catches every error, so both setters always run.
Card_initAnalytics(outcome) ==
    /\ page = "card"
    /\ UNCHANGED <<serverVars, panelVars, hoverLogVars>>
    /\ session = "pending"
    /\ session' = outcome
    /\ thrown' = (thrown \/ Script_Throws(outcome))
    /\ instanceInitialized' = IF outcome = "ok" THEN TRUE ELSE instanceInitialized
    /\ analytics' = TRUE
    /\ hookInitialized' = TRUE
    /\ UNCHANGED <<page, siblings, lost, clock, sent, pending, crossings, clicks>>
    /\ UNCHANGED <<cardHoverStartTime, cardRendered, cardObserver>>
    /\ UNCHANGED <<trackerVars, scriptVars, catalogVars>>

\* What a render of the component reads: the hook's state and hoverStartTime.
Card_State ==
    [analytics |-> analytics, isInitialized |-> hookInitialized,
     hoverStartTime |-> cardHoverStartTime]

\* What trackProductHover / trackProductClick / trackProductView of a render
\* close over.
Card_Hook(r) == [analytics |-> r.analytics, isInitialized |-> r.isInitialized]

\* The render that follows state updates, every update made before it
\* applied.  Effects still pending from the render before are run first.
Card_render ==
    /\ page = "card"
    /\ UNCHANGED <<serverVars, panelVars, hoverLogVars>>
    /\ cardRendered # Card_State
    /\ cardObserver' = Card_Hook(cardRendered)
    /\ cardRendered' = Card_State
    /\ UNCHANGED <<analytics, hookInitialized, instanceInitialized, cardHoverStartTime>>
    /\ UNCHANGED <<pageVars, trackerVars, scriptVars, catalogVars>>

\* The effect on [product.id, trackProductView] of the last render: the old
\* observer is disconnected and one whose callback calls the render's
\* trackProductView observes the element.
Card_viewEffect ==
    /\ page = "card"
    /\ UNCHANGED <<serverVars, panelVars, hoverLogVars>>
    /\ cardObserver # Card_Hook(cardRendered)
    /\ cardObserver' = Card_Hook(cardRendered)
    /\ UNCHANGED <<analytics, hookInitialized, instanceInitialized,
                   cardHoverStartTime, cardRendered>>
    /\ UNCHANGED <<pageVars, trackerVars, scriptVars, catalogVars>>

\* The hook's trackProductHover / trackProductClick / trackProductView, as
\* closed over analytics and isInitialized; the instance's own flag is read
\* when the call is made.
Card_track(hook, p, type, hasD, d) ==
    IF hook.analytics /\ hook.isInitialized
    THEN trackInteraction(instanceInitialized, p, type, hasD, d)
    ELSE UNCHANGED <<sent, pending>>

\* The callback of the attached IntersectionObserver.
Card_onIntersect(p, isIntersecting) ==
    /\ page = "card"
    /\ UNCHANGED <<serverVars, panelVars, hoverLogVars>>
    /\ IF isIntersecting
       THEN Card_track(cardObserver, p, "view", FALSE, 0)
       ELSE UNCHANGED <<sent, pending>>
    /\ Crossed(p, isIntersecting)
    /\ UNCHANGED clicks
    /\ UNCHANGED <<page, siblings, lost, thrown, clock, session>>
    /\ UNCHANGED <<trackerVars, scriptVars, cardVars, catalogVars>>

Card_handleMouseEnter ==
    /\ page = "card"
    /\ UNCHANGED <<serverVars, panelVars, hoverLogVars>>
    /\ cardHoverStartTime' = clock
    /\ UNCHANGED <<analytics, hookInitialized, instanceInitialized,
                   cardRendered, cardObserver>>
    /\ UNCHANGED <<pageVars, trackerVars, scriptVars, catalogVars>>

Card_Meaningful(duration) == duration > HoverMinCard

\* hoverStartTime is the one of the render the handler belongs to.
Card_handleMouseLeave(p) ==
    /\ page = "card"
    /\ UNCHANGED <<serverVars, panelVars, hoverLogVars>>
    /\ IF cardRendered.hoverStartTime # 0
       THEN LET duration == clock - cardRendered.hoverStartTime
            IN  /\ IF Card_Meaningful(duration)
                   THEN Card_track(Card_Hook(cardRendered), p, "hover", TRUE,
                                   duration)
                   ELSE UNCHANGED <<sent, pending>>
                /\ cardHoverStartTime' = 0
       ELSE UNCHANGED <<cardHoverStartTime, sent, pending>>
    /\ UNCHANGED <<page, siblings, lost, thrown, clock, session, crossings, clicks>>
    /\ UNCHANGED <<analytics, hookInitialized, instanceInitialized,
                   cardRendered, cardObserver>>
    /\ UNCHANGED <<trackerVars, scriptVars, catalogVars>>

Card_handleClick(p) ==
    /\ page = "card"
    /\ UNCHANGED <<serverVars, panelVars, hoverLogVars>>
    /\ Card_track(Card_Hook(cardRendered), p, "click", FALSE, 0)
    /\ Clicked(p)
    /\ UNCHANGED <<page, siblings, lost, thrown, clock, session, crossings>>
    /\ UNCHANGED <<trackerVars, scriptVars, cardVars, catalogVars>>


(***************************************************************************)
(* ProductCard (ProductCatalog.jsx) with its useProductAnalytics hook.     *)
(***************************************************************************)

\* initSession: setIsInitialized(true) follows the awaited fetch, which
\* throws on a network error only.
\* initSession and trackInteraction of useProductAnalytics catch and warn.
Catalog_Throws(outcome) == FALSE

Catalog_trackInteractionSettles(outcome) ==
    /\ page = "catalog"
    /\ UNCHANGED <<serverVars, panelVars, hoverLogVars>>
    /\ pending > 0
    /\ pending' = pending - 1
    /\ thrown' = (thrown \/ Catalog_Throws(outcome))
    /\ UNCHANGED <<page, siblings, lost, clock, session, sent, crossings, clicks>>
    /\ UNCHANGED <<trackerVars, scriptVars, cardVars, catalogVars>>

Catalog_initSession(outcome) ==
    /\ page = "catalog"
    /\ UNCHANGED <<serverVars, panelVars, hoverLogVars>>
    /\ session = "pending"
    /\ session' = outcome
    /\ thrown' = (thrown \/ Catalog_Throws(outcome))
    /\ catalogInitialized' = IF outcome # "network_error" THEN TRUE
                             ELSE catalogInitialized
    /\ UNCHANGED <<page, siblings, lost, clock, sent, pending, crossings, clicks>>
    /\ UNCHANGED <<catalogHoverStartTime, totalHoverTime, hoverCount, isVisible,
                   catalogRendered, catalogObserver, hoverEnds>>
    /\ UNCHANGED <<trackerVars, scriptVars, cardVars>>

\* What a render of ProductCard reads and its functions close over.
Catalog_State ==
    [isInitialized |-> catalogInitialized,
     hoverStartTime |-> catalogHoverStartTime, isVisible |-> isVisible]

\* What the observer callback of a render closes over: isVisible, and
\* isInitialized through trackInteraction.
Catalog_Seen(r) == [isInitialized |-> r.isInitialized, isVisible |-> r.isVisible]

\* The render that follows state updates, every update made before it
\* applied.  Effects still pending from the render before are run first.
Catalog_render ==
    /\ page = "catalog"
    /\ UNCHANGED <<serverVars, panelVars, hoverLogVars>>
    /\ catalogRendered # Catalog_State
    /\ catalogObserver' = Catalog_Seen(catalogRendered)
    /\ catalogRendered' = Catalog_State
    /\ UNCHANGED <<catalogInitialized, catalogHoverStartTime, totalHoverTime,
                   hoverCount, isVisible, hoverEnds>>
    /\ UNCHANGED <<pageVars, trackerVars, scriptVars, cardVars>>

\* The effect on [product.id, trackInteraction, isVisible] of the last
\* render: the old observer is disconnected and one with the render's
\* callback observes the card.
Catalog_viewEffect ==
    /\ page = "catalog"
    /\ UNCHANGED <<serverVars, panelVars, hoverLogVars>>
    /\ catalogObserver # Catalog_Seen(catalogRendered)
    /\ catalogObserver' = Catalog_Seen(catalogRendered)
    /\ UNCHANGED <<catalogInitialized, catalogHoverStartTime, totalHoverTime,
                   hoverCount, isVisible, catalogRendered, hoverEnds>>
    /\ UNCHANGED <<pageVars, trackerVars, scriptVars, cardVars>>

\* trackInteraction of the render whose isInitialized is given.
Catalog_trackInteraction(initialized, p, type, hasD, d) ==
    IF ~initialized
    THEN UNCHANGED <<sent, pending>>
    ELSE Fetch(TrackRequest(p, type, hasD, d))

\* The callback of the attached IntersectionObserver.
Catalog_onIntersect(p, isIntersecting) ==
    /\ page = "catalog"
    /\ UNCHANGED <<serverVars, panelVars, hoverLogVars>>
    /\ IF isIntersecting /\ ~catalogObserver.isVisible
       THEN /\ isVisible' = TRUE
            /\ Catalog_trackInteraction(catalogObserver.isInitialized,
                                        p, "view", FALSE, 0)
       ELSE UNCHANGED <<isVisible, sent, pending>>
    /\ Crossed(p, isIntersecting)
    /\ UNCHANGED clicks
    /\ UNCHANGED <<page, siblings, lost, thrown, clock, session>>
    /\ UNCHANGED <<catalogInitialized, catalogHoverStartTime, totalHoverTime,
                   hoverCount, catalogRendered, catalogObserver, hoverEnds>>
    /\ UNCHANGED <<trackerVars, scriptVars, cardVars>>

Catalog_handleMouseEnter ==
    /\ page = "catalog"
    /\ UNCHANGED <<serverVars, panelVars, hoverLogVars>>
    /\ hoverCount < MaxHovers
    /\ catalogHoverStartTime' = clock
    /\ hoverCount' = hoverCount + 1
    /\ UNCHANGED <<catalogInitialized, totalHoverTime, isVisible,
                   catalogRendered, catalogObserver, hoverEnds>>
    /\ UNCHANGED <<pageVars, trackerVars, scriptVars, cardVars>>

Catalog_Meaningful(duration) == duration > HoverMinCatalog

\* hoverStartTime is the one of the render the handler belongs to.  A
\* leave follows an enter: no more leaves find a start than enters were
\* delivered.
Catalog_handleMouseLeave(p) ==
    /\ page = "catalog"
    /\ UNCHANGED <<serverVars, panelVars, hoverLogVars>>
    /\ IF catalogRendered.hoverStartTime # 0
       THEN LET duration == clock - catalogRendered.hoverStartTime
            IN  /\ hoverEnds < hoverCount
                /\ hoverEnds' = hoverEnds + 1
                /\ totalHoverTime' = totalHoverTime + duration
                /\ IF Catalog_Meaningful(duration)
                   THEN Catalog_trackInteraction(catalogRendered.isInitialized,
                                                 p, "hover", TRUE, duration)
                   ELSE UNCHANGED <<sent, pending>>
                /\ catalogHoverStartTime' = 0
       ELSE UNCHANGED <<catalogHoverStartTime, totalHoverTime, sent, pending,
                        hoverEnds>>
    /\ UNCHANGED <<page, siblings, lost, thrown, clock, session, crossings, clicks>>
    /\ UNCHANGED <<catalogInitialized, hoverCount, isVisible, catalogRendered,
                   catalogObserver>>
    /\ UNCHANGED <<trackerVars, scriptVars, cardVars>>

Catalog_handleClick(p) ==
    /\ page = "catalog"
    /\ UNCHANGED <<serverVars, panelVars, hoverLogVars>>
    /\ Catalog_trackInteraction(catalogRendered.isInitialized, p, "click",
                                FALSE, 0)
    /\ UNCHANGED <<page, siblings, lost, thrown, clock, session, crossings, clicks>>
    /\ UNCHANGED <<trackerVars, scriptVars, cardVars, catalogVars>>


(***************************************************************************)
(* Specifications.                                                         *)
(***************************************************************************)

\* Observer state right after construction / first render.
\* No pointer event yet.
NoHoverLog ==
    /\ entered = [p \in TrackedProducts |-> 0]
    /\ unused = [p \in TrackedProducts |-> 0]
    /\ lastHover = NoHover

ObserverInit ==
    /\ NoHoverLog
    /\ crossings = [p \in TrackedProducts |-> 0]
    /\ clicks = [p \in TrackedProducts |-> 0]
    /\ hoverStartTime = 0
    /\ hasViewed = FALSE
    /\ hoverTimers = [p \in ScriptProducts |-> 0]
    /\ isInitialized = FALSE
    /\ analytics = FALSE
    /\ hookInitialized = FALSE
    /\ instanceInitialized = FALSE
    /\ cardHoverStartTime = 0
    /\ cardRendered = Card_State
    /\ cardObserver = Card_Hook(cardRendered)
    /\ catalogInitialized = FALSE
    /\ catalogHoverStartTime = 0
    /\ totalHoverTime = 0
    /\ hoverCount = 0
    /\ isVisible = FALSE
    /\ catalogRendered = Catalog_State
    /\ catalogObserver = Catalog_Seen(catalogRendered)
    /\ hoverEnds = 0

\* No page is open: the server is driven by arbitrary requests.
NoPage ==
    /\ page = "none"
    /\ siblings = 0
    /\ pending = 0
    /\ thrown = FALSE
    /\ lost = FALSE
    /\ clock = 1
    /\ session = "none"
    /\ sent = EmptyBag
    /\ ObserverInit

\* A page has loaded and its observer has been constructed: the session
\* bootstrap request is on its way.
PageInit ==
    /\ page \in Pages
    /\ siblings = 0
    /\ pending = 0
    /\ thrown = FALSE
    /\ lost = FALSE
    /\ clock = 1
    /\ session = "pending"
    /\ sent = SetToBag({SessionRequest})
    /\ ObserverInit

(***************************************************************************)
(* 4.4 Analytics Query Service: three reads over a lookback window.  Time  *)
(* is counted in hours here.  Numbers that need not be whole (averages)    *)
(* are fractions [num, den]; the absent average has den = 0.               *)
(***************************************************************************)

RECURSIVE Total(_, _)
\* SUM(f) over the rows I.
Total(f, I) ==
    IF I = {} THEN 0
    ELSE LET i == CHOOSE x \in I : TRUE
         IN  f[i] + Total(f, I \ {i})

\* A window that reads its length as days.
InWindowDays(t, tnow, hours, closed) == t >= tnow - 24 * hours

\* The window boundary on a timestamp: t is within the last `hours` hours
\* of tnow.  Whether a timestamp exactly `hours` old is inside is the
\* service's choice, `closed`.
InWindow(t, tnow, hours, closed) ==
    IF closed THEN t >= tnow - hours ELSE t > tnow - hours

\* The aggregate rows with any activity in the window: a row's activity
\* lies between its first_interaction and its last_interaction, which is
\* the time of its latest activity (and is indexed for this,
\* idx_product_interactions_last).
ActiveRows(A, tnow, hours, closed) ==
    {i \in DOMAIN A : InWindow(A[i].last_interaction, tnow, hours, closed)}

\* The hover count of a row.  product_interactions keeps the cumulative
\* hover time of a pair and no number of hover records, so what a read of
\* the table can count is whether the pair has hovered.
HoversOf(A, i) == IF A[i].total_hover_time_ms > 0 THEN 1 ELSE 0

\* view + hover + click counts of a row.
InteractionsOf(A, i) == A[i].total_views + HoversOf(A, i) + A[i].total_clicks

NoAverage == [num |-> 0, den |-> 0]

\* cumulative duration / hover count, N/A when the hover count is zero.
AverageHover(cum, count) ==
    IF count = 0 THEN NoAverage ELSE [num |-> cum, den |-> count]

\* total / session count, zero when the session count is zero.
AverageInteractions(total, count) ==
    IF count = 0 THEN [num |-> 0, den |-> 1]
    ELSE [num |-> total, den |-> count]

ProductSummary(A, I, p) ==
    LET rows == {i \in I : A[i].product_id = p}
        hovers == Total([i \in rows |-> HoversOf(A, i)], rows)
        cum == Total([i \in rows |-> A[i].total_hover_time_ms], rows)
    IN  [product_id |-> p,
         total_views |-> Total([i \in rows |-> A[i].total_views], rows),
         total_hovers |-> hovers,
         total_clicks |-> Total([i \in rows |-> A[i].total_clicks], rows),
         avg_hover_duration |-> AverageHover(cum, hovers),
         total_interactions |->
             Total([i \in rows |-> InteractionsOf(A, i)], rows)]

\* One row per product with any activity in the window.
QueryByProduct(S, A, tnow, hours, closed) ==
    LET I == ActiveRows(A, tnow, hours, closed)
    IN  {ProductSummary(A, I, p) : p \in {A[i].product_id : i \in I}}

SessionSummary(S, A, I, sid) ==
    LET rows == {i \in I : A[i].user_session_id = sid}
    IN  [ip_address |-> S[sid].ip_address,
         country |-> S[sid].country,
         total_interactions |->
             Total([i \in rows |-> InteractionsOf(A, i)], rows),
         first_seen |-> S[sid].first_seen,
         last_seen |-> S[sid].last_seen]

\* One row per session with any activity in the window.
QueryBySession(S, A, tnow, hours, closed) ==
    LET I == ActiveRows(A, tnow, hours, closed)
    IN  {SessionSummary(S, A, I, sid) :
            sid \in {A[i].user_session_id : i \in I}}

CountrySummary(S, A, I, g) ==
    LET rows == {i \in I : S[A[i].user_session_id].country = g}
        sids == {A[i].user_session_id : i \in rows}
        total == Total([i \in rows |-> InteractionsOf(A, i)], rows)
    IN  [country |-> g,
         user_count |-> Cardinality(sids),
         total_interactions |-> total,
         avg_interactions |-> AverageInteractions(total, Cardinality(sids))]

\* One row per distinct country among the sessions active in the window.
QueryByCountry(S, A, tnow, hours, closed) ==
    LET I == ActiveRows(A, tnow, hours, closed)
    IN  {CountrySummary(S, A, I, g) :
            g \in {S[A[i].user_session_id].country : i \in I}}

\* A read that registers its caller as a session on the way.
ReadTracksCaller(S, A, o, t) ==
    [sessions |-> EnsureSession(S, o, t, FALSE, UnknownCountry),
     aggregates |-> A]

\* The tables after a read from origin o at time t: no writes.
ReadOnly(S, A, o, t) == [sessions |-> S, aggregates |-> A]

(***************************************************************************)
(* AnalyticsDashboard.jsx                                                  *)
(***************************************************************************)

TimeRanges == {"1h", "24h", "7d", "30d"}

getHours(range) ==
    CASE range = "1h" -> 1
      [] range = "24h" -> 24
      [] range = "7d" -> 168
      [] range = "30d" -> 720
      [] OTHER -> 24

\* useState({users: [], products: [], countries: [], ...})
InitialAnalytics ==
    [users |-> {}, products |-> {}, countries |-> {},
     totalSessions |-> 0, totalInteractions |-> 0]

NotFetched == [hours |-> 0, outcome |-> "none"]

RECURSIVE GCD(_, _)
GCD(a, b) == IF b = 0 THEN a ELSE GCD(b, a % b)

\* A piece of rendered text: a number num/den followed by a unit; the unit
\* "N/A" is the text N/A itself.  den = 10 is a number printed with one
\* decimal.
Text(unit, n, d) == [unit |-> unit, num |-> n, den |-> d]

\* `${ms}`: the number as it is.
Plain(n, d) == Text("ms", n \div GCD(n, d), d \div GCD(n, d))

\* A Number is a binary double: 52 bits of fraction after the leading one.
FractionBits == 52

\* The binary exponent of n / d > 0: the e with 2^e <= n / d < 2^(e + 1).
RECURSIVE Exponent(_, _)
Exponent(n, d) ==
    IF n >= 2 * d THEN Exponent(n, 2 * d) + 1
    ELSE IF n < d THEN Exponent(2 * n, d) - 1
    ELSE 0

\* 2^k modulo m.
RECURSIVE Pow2Mod(_, _)
Pow2Mod(k, m) == IF k = 0 THEN 1 % m ELSE (2 * Pow2Mod(k - 1, m)) % m

\* Whether the double nearest to t / 20, for an odd t with binary exponent
\* e, is at or above t / 20: t / 20 = (t * 2^k / 20) * 2^(-k) with
\* k = FractionBits - e, and the double keeps the integer nearest to
\* t * 2^k / 20, so it lies below t / 20 when the remainder of t * 2^k
\* by 20 is under 10 and is t / 20 itself when the remainder is 0.
DoubleNotBelow(t, e) ==
    LET r == ((t % 20) * Pow2Mod(FractionBits - e, 20)) % 20
    IN  r = 0 \/ r > 10

\* (n / d).toFixed(1), in tenths: the tenth nearest to the double n / d,
\* the larger of two equally near ones.  The double differs from the
\* quotient by less than any distance between a quotient of these sizes
\* and a midpoint t / 20 (t odd), so only a quotient that is a midpoint is
\* decided by its double.
toFixed1(n, d) ==
    IF n = 0 THEN 0
    ELSE IF (20 * n) % d = 0 /\ ((20 * n) \div d) % 2 = 1
    THEN LET t == (20 * n) \div d
         IN  IF DoubleNotBelow(t, Exponent(n, d)) THEN (t + 1) \div 2
             ELSE (t - 1) \div 2
    ELSE (20 * n + d) \div (2 * d)

formatDuration(ms) ==
    IF ms.num < 1000 * ms.den THEN Plain(ms.num, ms.den)
    ELSE IF ms.num < 60000 * ms.den
    THEN Text("s", toFixed1(ms.num, 1000 * ms.den), 10)
    ELSE Text("m", toFixed1(ms.num, 60000 * ms.den), 10)

\* A cell that formats whatever it is given; the absent average reads as 0.
AvgHoverCellUnguarded(product) ==
    IF product.avg_hover_duration.den = 0 THEN Text("ms", 0, 1)
    ELSE formatDuration(product.avg_hover_duration)

\* product.avg_hover_duration ? formatDuration(...) : 'N/A'
AvgHoverCell(product) ==
    IF product.avg_hover_duration.den # 0 /\ product.avg_hover_duration.num # 0
    THEN formatDuration(product.avg_hover_duration)
    ELSE Text("N/A", 0, 1)

\* A cell that divides without looking at the count.
AvgInteractionsCellFloor(country) ==
    IF country.user_count > 0
    THEN Text("", 10 * (country.total_interactions \div country.user_count), 10)
    ELSE Text("", 0, 1)

\* country.user_count > 0 ? (total_interactions / user_count).toFixed(1) : '0'
AvgInteractionsCell(country) ==
    IF country.user_count > 0
    THEN Text("", toFixed1(country.total_interactions, country.user_count), 10)
    ELSE Text("", 0, 1)

\* How one GET ends: a 200 with its list, an error status with a body that
\* has no list, or a rejected request.
ResponseOutcomes == {"ok", "unavailable", "network_error"}

\* How the three GETs of one fetchAnalytics call end, each on its own.
FetchOutcomes ==
    [users : ResponseOutcomes, products : ResponseOutcomes,
     countries : ResponseOutcomes]

AllOk == [users |-> "ok", products |-> "ok", countries |-> "ok"]

\* Promise.all rejects when one of the requests is rejected, and the catch
\* leaves the state as it was.
Rejected(outcome) ==
    "network_error" \in {outcome.users, outcome.products, outcome.countries}

\* The body of one response: a failed call's body has no list in it.
Body(outcome, list) ==
    IF outcome = "ok" THEN [has |-> TRUE, list |-> list]
    ELSE [has |-> FALSE, list |-> {}]

\* body.list || []
ListOf(body) == IF body.has THEN body.list ELSE {}

\* setAnalytics({...}) from the three bodies.
setAnalytics(usersRes, productsRes, countriesRes) ==
    [users |-> ListOf(usersRes),
     products |-> ListOf(productsRes),
     countries |-> ListOf(countriesRes),
     totalSessions |-> Cardinality(ListOf(usersRes)),
     totalInteractions |->
         Total([p \in ListOf(productsRes) |-> p.total_interactions],
               ListOf(productsRes))]

\* fetchAnalytics as it runs: the requests are issued with the range of the
\* render that called it, and setAnalytics runs when the responses have
\* arrived.
\* At most MaxFetches calls of fetchAnalytics are outstanding, and the
\* range is changed at most MaxSelects times.
MaxFetches == 2
MaxSelects == 1

CanIssue == BagCardinality(outstanding) < MaxFetches

Issued(hours) == outstanding (+) SetToBag({hours})

\* What setAnalytics is given by a fetch for a window whose responses end
\* as outcome says and are read from the store now.
Response(outcome, hours) ==
    setAnalytics(
        Body(outcome.users,
             QueryBySession(user_sessions, product_interactions, now, hours,
                            closedWindow)),
        Body(outcome.products,
             QueryByProduct(user_sessions, product_interactions, now, hours,
                            closedWindow)),
        Body(outcome.countries,
             QueryByCountry(user_sessions, product_interactions, now, hours,
                            closedWindow)))

Dashboard_frame ==
    /\ UNCHANGED <<serverVars, observerVars, landingVars, serviceVars>>

\* The select's onChange: setTimeRange(e.target.value).  The select is in
\* the page if the last render returned the dashboard, not the loading
\* screen of `if (loading)`, and it shows the timeRange that render read.
Dashboard_selectRange(range) ==
    /\ page = "dashboard"
    /\ ~dashboardRendered.loading
    /\ range # dashboardRendered.timeRange
    /\ selections < MaxSelects
    /\ timeRange' = range
    /\ selections' = selections + 1
    /\ current' = (current /\ range = timeRange)
    /\ UNCHANGED <<dashboard, loading, fetched, dashboardRendered,
                   intervalRange, outstanding>>
    /\ Dashboard_frame

\* The effect on [timeRange] of the last render is pending: that render
\* read another timeRange than the render whose effect ran last.
Dashboard_effectPending == dashboardRendered.timeRange # intervalRange

\* The range whose fetchAnalytics the running interval calls once a
\* pending effect has been run.
FlushedRange ==
    IF Dashboard_effectPending THEN dashboardRendered.timeRange
    ELSE intervalRange

\* The fetches outstanding once a pending effect has been run.
FlushedFetches ==
    IF Dashboard_effectPending THEN Issued(getHours(dashboardRendered.timeRange))
    ELSE outstanding

\* The updates a render applies: every update made before it, or, for the
\* render that follows the select's change event under a concurrent root,
\* the setTimeRange of that event alone, the setLoading calls of timers,
\* effects and responses staying queued for the render after it.
Lanes == {"all", "sync"}

\* What a render that applies the updates of `lanes` reads for the closures
\* it creates: timeRange for fetchAnalytics and the effect's dependencies,
\* loading for whether the dashboard, with its select, or the loading screen
\* is returned, the loading state being `queued` once every update is
\* applied.
Dashboard_Reads(lanes, queued) ==
    [timeRange |-> timeRange,
     loading |-> IF lanes = "sync" THEN dashboardRendered.loading ELSE queued]

\* A render.  An effect still pending from the render before is run first,
\* and its setLoading(true) is among the updates made before this render.
Dashboard_render(lanes) ==
    /\ page = "dashboard"
    /\ dashboardRendered # Dashboard_Reads(lanes, loading)
    /\ Dashboard_effectPending => CanIssue
    /\ intervalRange' = FlushedRange
    /\ outstanding' = FlushedFetches
    /\ loading' = (Dashboard_effectPending \/ loading)
    /\ dashboardRendered' = Dashboard_Reads(lanes, loading')
    /\ UNCHANGED <<timeRange, dashboard, fetched, selections, current>>
    /\ Dashboard_frame

\* The effect on [timeRange] of the last render is run: clearInterval of
\* the run before, fetchAnalytics() and setInterval(fetchAnalytics, 30000),
\* both with the fetchAnalytics of that render, which reads that render's
\* timeRange: setLoading(true) and the three GETs.
Dashboard_rangeEffect ==
    /\ page = "dashboard"
    /\ Dashboard_effectPending
    /\ CanIssue
    /\ intervalRange' = FlushedRange
    /\ outstanding' = FlushedFetches
    /\ loading' = TRUE
    /\ UNCHANGED <<timeRange, dashboard, fetched, dashboardRendered,
                   selections, current>>
    /\ Dashboard_frame

\* The interval of the effect that ran last fires: fetchAnalytics of the
\* render that effect belongs to.
Dashboard_intervalFires ==
    /\ page = "dashboard"
    /\ CanIssue
    /\ outstanding' = Issued(getHours(intervalRange))
    /\ loading' = TRUE
    /\ UNCHANGED <<timeRange, dashboard, fetched, dashboardRendered,
                   intervalRange, selections, current>>
    /\ Dashboard_frame

\* The origin the dashboard is opened from; it has no session in the store.
Viewers == {0}

\* The responses of an outstanding fetchAnalytics, called from origin o,
\* arrive: the query service has read the store for each request it has
\* answered, and setAnalytics runs with what was asked for, or the catch if
\* a request was rejected, and setLoading(false) in either case.  No
\* aggregate is written while the dashboard is
\* open, so what the service read is what the store holds now.
Dashboard_fetchSettles(hours, outcome, o) ==
    /\ page = "dashboard"
    /\ BagIn(hours, outstanding)
    /\ outstanding' = outstanding (-) SetToBag({hours})
    /\ LET after == IF outcome = [users |-> "network_error",
                                  products |-> "network_error",
                                  countries |-> "network_error"]
                    THEN [sessions |-> user_sessions,
                          aggregates |-> product_interactions]
                    ELSE ReadOnly(user_sessions, product_interactions, o, now)
       IN  /\ user_sessions' = after.sessions
           /\ product_interactions' = after.aggregates
    /\ dashboard' = IF Rejected(outcome) THEN dashboard
                     ELSE Response(outcome, hours)
    /\ fetched' = IF Rejected(outcome) THEN fetched
                   ELSE [hours |-> hours,
                         outcome |-> IF outcome = AllOk THEN "ok" ELSE "failed"]
    /\ loading' = FALSE
    /\ current' = (current \/ (outcome = AllOk /\ hours = getHours(timeRange)))
    /\ UNCHANGED <<timeRange, dashboardRendered, intervalRange, selections>>
    /\ UNCHANGED <<products, now, inflight, nextCall, lastDone, applied, ensured>>
    /\ UNCHANGED <<observerVars, landingVars, serviceVars>>

\* The dashboard has not been opened.
NoDashboard ==
    /\ timeRange = "24h"
    /\ dashboard = InitialAnalytics
    /\ loading = TRUE
    /\ fetched = NotFetched
    /\ dashboardRendered = Dashboard_Reads("all", loading)
    /\ intervalRange = timeRange

\* No fetch is outstanding.
NoFetches ==
    /\ outstanding = EmptyBag
    /\ selections = 0
    /\ current = FALSE

\* The landing page has not been opened.
NoLanding ==
    /\ gifLoaded = FALSE
    /\ showSellerBot = FALSE
    /\ showChatbot = FALSE
    /\ chatTimer = 0
    /\ renderedDeps = <<FALSE, FALSE>>
    /\ effectDeps = <<FALSE, FALSE>>
    /\ visibleSince = 0

\* No query is served.
NoService == closedWindow = TRUE

\* The backend writes no aggregate.
NoInsert == namesFirst = FALSE

NoPanels == NoDashboard /\ NoFetches /\ NoLanding /\ NoService

\* The store the dashboard has mounted on, its effect having issued the
\* first fetch: five sessions and three products, and the aggregates that
\* accepted records have left, last touched some hours ago.
QueryNow == 30
OldestAge == 25
QueryProducts == {1, 2, 3}

Row(sid, p, nviews, nclicks, ms) ==
    [user_session_id |-> sid, product_id |-> p, total_views |-> nviews,
     total_clicks |-> nclicks, total_hover_time_ms |-> ms]

\* What the aggregates hold.  In the first store product 1 has no hover,
\* product 2 has 2 hovers of 1000 ms in all, product 3 has 5 hovers of
\* 2500 ms in all, and sessions 1 and 2 have 3 and 7 interactions.  In the
\* second an average is above a second and four sessions share five
\* interactions.
StoredCounters ==
    {<<Row(1, 1, 1, 0, 0), Row(2, 1, 3, 2, 0),
       Row(1, 2, 0, 0, 300), Row(2, 2, 0, 0, 700),
       Row(1, 3, 0, 0, 500), Row(2, 3, 0, 0, 500), Row(3, 3, 0, 0, 500),
       Row(4, 3, 0, 0, 500), Row(5, 3, 0, 0, 500)>>,
     <<Row(1, 1, 1, 0, 1150), Row(2, 1, 1, 0, 0), Row(3, 2, 0, 1, 0),
       Row(4, 2, 1, 0, 0), Row(5, 3, 1, 0, 2300)>>}

\* The country of the five sessions, in the first and in the second store.
StoredCountry(rows, sid) ==
    IF Len(rows) = 9 THEN (IF sid <= 2 THEN "TN" ELSE UnknownCountry)
    ELSE (IF sid <= 4 THEN "TN" ELSE UnknownCountry)

\* How many hours ago a row was last touched, by its session and product:
\* all just now, older by the product, or two hours and more by the
\* session.
StoredAges ==
    {[sid \in 1..5, p \in QueryProducts |-> 0],
     [sid \in 1..5, p \in QueryProducts |-> p - 1],
     [sid \in 1..5, p \in QueryProducts |->
         IF sid <= 3 THEN 2 ELSE OldestAge]}

StoredRow(row, age) ==
    [user_session_id |-> row.user_session_id,
     product_id |-> row.product_id,
     total_hover_time_ms |-> row.total_hover_time_ms,
     total_views |-> row.total_views,
     total_clicks |-> row.total_clicks,
     first_interaction |-> QueryNow - age[row.user_session_id, row.product_id],
     last_interaction |-> QueryNow - age[row.user_session_id, row.product_id]]

\* A session row first seen at time 0 and last seen when the latest of its
\* records was written.
StoredSession(sid, rows, age) ==
    LET seen == {QueryNow - age[rows[k].user_session_id, rows[k].product_id] :
                    k \in {j \in DOMAIN rows : rows[j].user_session_id = sid}}
    IN  [NewSession(sid, 0, StoredCountry(rows, sid)) EXCEPT
            !.last_seen = CHOOSE t \in seen : \A u \in seen : u <= t]

QueryInit ==
    /\ products = QueryProducts
    /\ \E rows \in StoredCounters, age \in StoredAges :
          /\ user_sessions = [sid \in 1..5 |-> StoredSession(sid, rows, age)]
          /\ product_interactions =
                [k \in DOMAIN rows |-> StoredRow(rows[k], age)]
    /\ closedWindow \in BOOLEAN
    /\ NoInsert
    /\ applied = [k \in Origins \X ProductRefs |-> NoApplied]
    /\ now = QueryNow
    /\ inflight = EmptyBag
    /\ nextCall = 1
    /\ lastDone = NoDone
    /\ ensured = [o \in Origins |-> NoEnsured]
    /\ page = "dashboard"
    /\ siblings = 0
    /\ pending = 0
    /\ thrown = FALSE
    /\ lost = FALSE
    /\ clock = 1
    /\ session = "none"
    /\ sent = EmptyBag
    /\ ObserverInit
    /\ NoDashboard
    /\ outstanding = SetToBag({getHours("24h")})
    /\ selections = 0
    /\ current = FALSE
    /\ NoLanding
    /\ observed = FALSE

\* The outcomes drawn: every mix of answered requests, and one rejected
\* request among answered ones.
DrawnOutcomes ==
    {outcome \in FetchOutcomes :
        Rejected(outcome)
            => Cardinality({r \in {"users", "products", "countries"} :
                               outcome[r] = "ok"}) = 2}

QueryNext ==
    \/ \E range \in TimeRanges : Dashboard_selectRange(range)
    \/ \E lanes \in Lanes : Dashboard_render(lanes)
    \/ Dashboard_rangeEffect
    \/ Dashboard_intervalFires
    \/ \E range \in TimeRanges, outcome \in DrawnOutcomes, o \in Viewers :
          Dashboard_fetchSettles(getHours(range), outcome, o)

SpecQuery == QueryInit /\ [][QueryNext]_vars


Init ==
    /\ ServerInit /\ NoPage /\ NoPanels /\ observed = FALSE
    /\ namesFirst \in BOOLEAN

Spec == Init /\ [][Next]_vars

\* The store as earlier calls have left it, some time before the clock of
\* the model starts: a session for each origin, an aggregate of product 1
\* for origin 2 and, in one of the two stores, one for origin 1.

PriorSessions ==
    <<NewSession(1, 0, "TN"), NewSession(2, 0, UnknownCountry)>>

PriorAggregate(sid, nviews, nclicks, ms) ==
    [user_session_id |-> sid, product_id |-> 1,
     total_hover_time_ms |-> ms, total_views |-> nviews, total_clicks |-> nclicks,
     first_interaction |-> 0, last_interaction |-> 0]

PriorStores ==
    {<<PriorAggregate(2, 0, 1, HoverMs)>>,
     <<PriorAggregate(2, 0, 1, HoverMs), PriorAggregate(1, 1, 0, 0)>>}

PriorHistory(A) ==
    [k \in Origins \X ProductRefs |->
        IF PairRows(A, k[1], k[2]) = {} THEN NoApplied
        ELSE LET row == A[PairRow(A, k[1], k[2])]
             IN  [hover |-> row.total_hover_time_ms,
                  views |-> row.total_views, clicks |-> row.total_clicks]]

PriorInit ==
    /\ products = Catalog
    /\ user_sessions = PriorSessions
    /\ product_interactions \in PriorStores
    /\ now = 1
    /\ inflight = EmptyBag
    /\ nextCall = 1
    /\ lastDone = NoDone
    /\ applied = PriorHistory(product_interactions)
    /\ ensured = [o \in Origins |-> [bootstraps |-> 1, latestBootstrap |-> 0]]
    /\ NoPage
    /\ NoPanels
    /\ namesFirst \in BOOLEAN
    /\ observed = FALSE

SpecPrior == PriorInit /\ [][Next]_vars

ClientInit ==
    ServerInit /\ PageInit /\ NoPanels /\ NoInsert /\ observed = FALSE

ClientNext ==
    \/ Advance
    \/ MountSibling
    \/ \E outcome \in SessionOutcomes : Tracker_initSession(outcome)
    \/ \E p \in CardProducts, i \in BOOLEAN : Tracker_onIntersect(p, i)
    \/ Tracker_viewEffect
    \/ Tracker_handleMouseEnter
    \/ \E p \in CardProducts : Tracker_handleMouseLeave(p)
    \/ \E p \in CardProducts : Tracker_handleClick(p)
    \/ \E outcome \in SessionOutcomes : Tracker_trackInteractionSettles(outcome)
    \/ \E outcome \in SessionOutcomes : initializeSession(outcome)
    \/ \E p \in ScriptProducts : trackProductHoverStart(p)
    \/ \E p \in ScriptProducts : trackProductHoverEnd(p)
    \/ \E p \in ScriptProducts : trackProductClick(p)
    \/ \E p \in ScriptProducts, i \in BOOLEAN : Script_onIntersect(p, i)
    \/ \E outcome \in SessionOutcomes : trackInteractionSettles(outcome)
    \/ \E outcome \in SessionOutcomes : Card_initAnalytics(outcome)
    \/ Card_render
    \/ Card_viewEffect
    \/ \E p \in CardProducts, i \in BOOLEAN : Card_onIntersect(p, i)
    \/ Card_handleMouseEnter
    \/ \E p \in CardProducts : Card_handleMouseLeave(p)
    \/ \E p \in CardProducts : Card_handleClick(p)
    \/ \E outcome \in SessionOutcomes : Catalog_initSession(outcome)
    \/ Catalog_render
    \/ Catalog_viewEffect
    \/ \E p \in CardProducts, i \in BOOLEAN : Catalog_onIntersect(p, i)
    \/ Catalog_handleMouseEnter
    \/ \E p \in CardProducts : Catalog_handleMouseLeave(p)
    \/ \E p \in CardProducts : Catalog_handleClick(p)
    \/ \E outcome \in SessionOutcomes : Catalog_trackInteractionSettles(outcome)

SpecClient == ClientInit /\ [][ClientNext]_vars

\* The store with a catalog of two products whose owner deletes products,
\* and queries reading it.
LifecycleInit ==
    /\ products = ProductRefs
    /\ user_sessions = <<>>
    /\ product_interactions = <<>>
    /\ now = 1
    /\ inflight = EmptyBag
    /\ nextCall = 1
    /\ lastDone = NoDone
    /\ applied = [k \in Origins \X ProductRefs |-> NoApplied]
    /\ ensured = [o \in Origins |-> NoEnsured]
    /\ page = "dashboard"
    /\ siblings = 0
    /\ pending = 0
    /\ thrown = FALSE
    /\ lost = FALSE
    /\ clock = 1
    /\ session = "none"
    /\ sent = EmptyBag
    /\ ObserverInit
    /\ NoPanels
    /\ namesFirst \in BOOLEAN
    /\ observed = FALSE

\* GET /analytics/users, /products or /countries from origin o is served.
ServeQuery(o) ==
    /\ LET after == ReadOnly(user_sessions, product_interactions, o, now)
       IN  /\ user_sessions' = after.sessions
           /\ product_interactions' = after.aggregates
    /\ UNCHANGED <<products, now, inflight, nextCall, lastDone, applied, ensured>>
    /\ UNCHANGED clientVars

LifecycleNext ==
    \/ \E o \in Origins : BeginEnsure(o)
    \/ \E c \in InFlight : CompleteEnsure(c)
    \/ \E r \in Requests :
          BeginRecord(r.origin, r.product, r.kind, r.has_duration, r.duration_ms)
    \/ \E c \in InFlight : RecordOk(c)
    \/ \E r \in Requests :
          RecordNotFound(r.origin, r.product, r.kind, r.has_duration, r.duration_ms)
    \/ \E c \in InFlight : RecordGone(c)
    \/ \E p \in ProductRefs : DeleteProduct(p)
    \/ \E o \in Origins : ServeQuery(o)

SpecLifecycle == LifecycleInit /\ [][LifecycleNext]_vars

\* The pointer events of ProductHoverTracker and of CLOESSAnalytics, with
\* their history.
HoverPages == {"tracker", "script"}

HoverInit ==
    /\ ServerInit
    /\ PageInit
    /\ page \in HoverPages
    /\ NoPanels
    /\ NoInsert
    /\ observed = TRUE

HoverNext ==
    \/ Advance
    \/ \E outcome \in SessionOutcomes : Tracker_initSession(outcome)
    \/ Tracker_handleMouseEnter
    \/ \E p \in CardProducts : Tracker_handleMouseLeave(p)
    \/ \E outcome \in SessionOutcomes : Tracker_trackInteractionSettles(outcome)
    \/ \E outcome \in SessionOutcomes : initializeSession(outcome)
    \/ \E p \in ScriptProducts : trackProductHoverStart(p)
    \/ \E p \in ScriptProducts : trackProductHoverEnd(p)
    \/ \E outcome \in SessionOutcomes : trackInteractionSettles(outcome)

SpecHover == HoverInit /\ [][HoverNext]_vars

(***************************************************************************)
(* CloessLanding: the chatbot popup.  Time is in milliseconds.             *)
(***************************************************************************)

\* setTimeout(..., 2000)
ChatbotDelay == 2000

\* The instants at which something happens on the landing page: every half
\* delay, over MaxVisit half delays.
MaxVisit == 5
LandingTimes == {1 + k * (ChatbotDelay \div 2) : k \in 0..MaxVisit}

\* return () => clearTimeout(timer)
ClearTimeout(timer) == 0

\* The effect on [gifLoaded, showSellerBot], run at t after a render in
\* which one of the two differs from the last run: the cleanup of the
\* previous run, then a new timer if both hold.
ChatbotEffect(gif, bot, timer, t) ==
    IF gif /\ bot THEN t ELSE ClearTimeout(timer)

Landing_frame ==
    /\ UNCHANGED <<serverVars, dashboardVars, fetchVars, serviceVars,
                   hoverLogVars>>
    /\ UNCHANGED <<page, siblings, lost, thrown, session, sent, pending,
                   crossings, clicks>>
    /\ UNCHANGED <<trackerVars, scriptVars, cardVars, catalogVars>>

Landing_advance ==
    /\ page = "landing"
    /\ \E t \in LandingTimes : t > clock /\ clock' = t
    /\ UNCHANGED landingVars
    /\ Landing_frame

\* The IntersectionObserver callback of the grid (threshold 0.2):
\* setShowSellerBot(entry.isIntersecting).  The render and its effect
\* follow in a later task.
Landing_onIntersect(isIntersecting) ==
    /\ page = "landing"
    /\ showSellerBot' = isIntersecting
    /\ visibleSince' = IF ~isIntersecting THEN 0
                        ELSE IF showSellerBot THEN visibleSince ELSE clock
    /\ UNCHANGED <<gifLoaded, showChatbot, chatTimer, renderedDeps, effectDeps,
                   clock>>
    /\ Landing_frame

\* onLoad of the intro gif: setGifLoaded(true).
handleGifLoad ==
    /\ page = "landing"
    /\ ~gifLoaded
    /\ gifLoaded' = TRUE
    /\ UNCHANGED <<showSellerBot, showChatbot, chatTimer, renderedDeps,
                   effectDeps, visibleSince, clock>>
    /\ Landing_frame

\* The effect of the last render, if its dependencies are not those of the
\* last run, run at t: the timer it leaves pending.
FlushedTimer(timer, t) ==
    IF renderedDeps # effectDeps
    THEN ChatbotEffect(renderedDeps[1], renderedDeps[2], timer, t)
    ELSE timer

\* The render that follows state updates, every update made before it
\* applied: it reads gifLoaded and showSellerBot for the effect it
\* schedules.  An effect still pending from the render before is run first.
Landing_render ==
    /\ page = "landing"
    /\ <<gifLoaded, showSellerBot>> # renderedDeps
    /\ chatTimer' = FlushedTimer(chatTimer, clock)
    /\ effectDeps' = renderedDeps
    /\ renderedDeps' = <<gifLoaded, showSellerBot>>
    /\ UNCHANGED <<gifLoaded, showSellerBot, showChatbot, visibleSince, clock>>
    /\ Landing_frame

\* The effect of the last render is run, with the values that render read:
\* the cleanup of the run before, then the body.
Landing_chatbotEffect ==
    /\ page = "landing"
    /\ renderedDeps # effectDeps
    /\ chatTimer' = FlushedTimer(chatTimer, clock)
    /\ effectDeps' = renderedDeps
    /\ UNCHANGED <<gifLoaded, showSellerBot, showChatbot, renderedDeps,
                   visibleSince, clock>>
    /\ Landing_frame

\* The timer's callback, at or after its delay: setShowChatbot(true).
Landing_timerFires ==
    /\ page = "landing"
    /\ chatTimer # 0
    /\ clock >= chatTimer + ChatbotDelay
    /\ showChatbot' = TRUE
    /\ chatTimer' = 0
    /\ UNCHANGED <<gifLoaded, showSellerBot, renderedDeps, effectDeps,
                   visibleSince, clock>>
    /\ Landing_frame

\* onClose of the popup.
closeChatbot ==
    /\ page = "landing"
    /\ showChatbot
    /\ showChatbot' = FALSE
    /\ UNCHANGED <<gifLoaded, showSellerBot, chatTimer, renderedDeps,
                   effectDeps, visibleSince, clock>>
    /\ Landing_frame

LandingInit ==
    /\ ServerInit
    /\ page = "landing"
    /\ siblings = 0
    /\ pending = 0
    /\ thrown = FALSE
    /\ lost = FALSE
    /\ clock = 1
    /\ session = "none"
    /\ sent = EmptyBag
    /\ ObserverInit
    /\ NoPanels
    /\ NoInsert
    /\ observed = FALSE

LandingNext ==
    \/ Landing_advance
    \/ \E i \in BOOLEAN : Landing_onIntersect(i)
    \/ handleGifLoad
    \/ Landing_render
    \/ Landing_chatbotEffect
    \/ Landing_timerFires
    \/ closeChatbot

SpecLanding == LandingInit /\ [][LandingNext]_vars

(***************************************************************************)
(* Properties of the store and of the two write operations.                *)
(***************************************************************************)

TheSession(o) == user_sessions[SessionId(user_sessions, o)]

HasAggregate(S, A, o, p) ==
    SessionId(S, o) # 0 /\ PairRows(A, SessionId(S, o), p) # {}

Aggregate(S, A, o, p) == A[PairRow(A, SessionId(S, o), p)]

\* What a reader of the pair's aggregate finds.
PairTotals(S, A, o, p) ==
    IF HasAggregate(S, A, o, p)
    THEN [hover |-> Aggregate(S, A, o, p).total_hover_time_ms,
          views |-> Aggregate(S, A, o, p).total_views,
          clicks |-> Aggregate(S, A, o, p).total_clicks]
    ELSE [hover |-> 0, views |-> 0, clicks |-> 0]

\* A step in which a call is answered: a call that fails validation is
\* answered in the step it arrives (nextCall advances, nothing is left in
\* flight), any other call in the step that takes it out of flight.
Answered ==
    \/ nextCall' # nextCall /\ inflight' = inflight
    \/ nextCall' = nextCall /\ inflight' # inflight

\* The call answered in this step reached the durable store.
StoreReached == lastDone'.status # "Unavailable"

\* C1: the cumulative hover duration of every (session, product) pair is
\* the sum of the durations of all hover records accepted for the pair, in
\* every interleaving of the calls: K concurrent records of duration d add
\* exactly K*d to the prior value.
C1_NoLostHoverUpdate ==
    \A o \in Origins, p \in ProductRefs :
        PairTotals(user_sessions, product_interactions, o, p).hover
            = applied[<<o, p>>].hover

\* Two hover records for one pair that overlapped (the second wrote after
\* having found no row when it started) are both in the total.
C1_Witness ==
    /\ lastDone.kind = "hover" /\ lastDone.status = "ok" /\ lastDone.raced
    /\ \E o \in Origins :
          /\ applied[<<o, 1>>].hover = 2 * HoverMs
          /\ PairTotals(user_sessions, product_interactions, o, 1).hover = 2 * HoverMs

\* C2: once an origin has bootstrapped at least once, the store holds
\* exactly one session row for it, and while the bootstrap is the latest
\* call for the origin, last_seen is the time of that latest bootstrap.
C2_IdempotentBootstrap ==
    \A o \in Origins :
        ensured[o].bootstraps >= 1 =>
            /\ Cardinality(SessionRows(user_sessions, o)) = 1
            /\ ensured[o].latestBootstrap # 0 =>
                  TheSession(o).last_seen = ensured[o].latestBootstrap

\* An origin that bootstrapped twice, the second time later than the first.
C2_Witness ==
    \E o \in Origins :
        /\ ensured[o].bootstraps >= 2
        /\ Cardinality(SessionRows(user_sessions, o)) = 1
        /\ TheSession(o).first_seen < TheSession(o).last_seen
        /\ TheSession(o).last_seen = ensured[o].latestBootstrap

\* C3: no state holds two session rows for one origin, and an ensureSession
\* call that found no row when it started and finds one when it writes
\* completes with success as an update of that row: no row is added and
\* the row's last_seen becomes the time of the write.
C3_SessionRaceResolved ==
    /\ [](\A o \in Origins : Cardinality(SessionRows(user_sessions, o)) <= 1)
    /\ [][\A c \in InFlight :
            (/\ c.op = "session" /\ ~c.sawSession
             /\ SessionRows(user_sessions, c.origin) # {}
             /\ CompleteEnsure(c))
            => /\ lastDone'.status = "ok"
               /\ Len(user_sessions') = Len(user_sessions)
               /\ TheSession(c.origin)'.last_seen = now
               /\ TheSession(c.origin)'.first_seen = TheSession(c.origin).first_seen]_vars

\* The loser of a session race has completed, after the winner and later.
C3_Witness ==
    /\ lastDone.op = "session" /\ lastDone.raced /\ lastDone.status = "ok"
    /\ \E o \in Origins :
          /\ Cardinality(SessionRows(user_sessions, o)) = 1
          /\ TheSession(o).first_seen < TheSession(o).last_seen

\* C4: product_interactions never holds two rows for one (session, product)
\* pair.
C4_OneRowPerPair ==
    \A i, j \in DOMAIN product_interactions :
        (/\ product_interactions[i].user_session_id = product_interactions[j].user_session_id
         /\ product_interactions[i].product_id = product_interactions[j].product_id)
        => i = j

\* Two overlapping records of different kinds for a new pair ended in one row.
C4_Witness ==
    /\ lastDone.op = "record" /\ lastDone.raced /\ lastDone.status = "ok"
    /\ Len(product_interactions) = 1
    /\ product_interactions[1].total_views + product_interactions[1].total_clicks >= 2

\* C5: a recordInteraction call for a product that is not in the catalog is
\* answered NotFound (the store being reachable), and the step that answers
\* it changes neither table: no aggregate row and no session row is created
\* or changed.
C5_UnknownProductNoEffect ==
    [][(Answered /\ lastDone'.op = "record" /\ lastDone'.product \notin products)
       => /\ StoreReached => lastDone'.status = "NotFound"
          /\ UNCHANGED <<user_sessions, product_interactions, applied>>]_vars

\* A call for an unknown product was turned away while the store still had
\* no session at all.
C5_Witness ==
    /\ lastDone.status = "NotFound"
    /\ user_sessions = <<>> /\ product_interactions = <<>>
    /\ nextCall > 1

\* C6 as stated: a hover record whose duration is zero, negative or absent
\* is answered InvalidArgument (the store being reachable) and the step
\* that answers it changes no aggregate row.
C6_BadHoverInvalid ==
    [][(Answered /\ lastDone'.op = "record" /\ lastDone'.bad_hover)
       => /\ UNCHANGED <<product_interactions, applied>>
          /\ StoreReached => lastDone'.status = "InvalidArgument"]_vars

\* C6, amended: a hover record whose duration is zero, negative or absent
\* is turned away and the step that answers it changes no aggregate row;
\* the status is InvalidArgument when the product is in the catalog and
\* NotFound when it is not (the product check comes first), the store
\* being reachable.
C6_BadHoverRejected ==
    [][(Answered /\ lastDone'.op = "record" /\ lastDone'.bad_hover)
       => /\ UNCHANGED <<product_interactions, applied>>
          /\ (StoreReached /\ lastDone'.product \in products)
                => lastDone'.status = "InvalidArgument"
          /\ (StoreReached /\ lastDone'.product \notin products)
                => lastDone'.status = "NotFound"]_vars

\* A hover without positive duration was turned away from a pair that
\* already has an aggregate row.
C6_Witness ==
    /\ lastDone.status = "InvalidArgument" /\ lastDone.kind = "hover"
    /\ Len(product_interactions) >= 1

\* C7: a record for a catalog product, with a positive duration if it is a
\* hover, succeeds (the store being reachable) whether or not its origin
\* has a session, and when it is
\* written for an origin that still has none, the
\* session row is created and the pair's aggregate holds exactly the
\* record's increment.
C7_RecordWithoutBootstrap ==
    /\ [][(/\ Answered /\ lastDone'.op = "record" /\ StoreReached
            /\ lastDone'.product \in products /\ ~lastDone'.bad_hover)
           => lastDone'.status = "ok"]_vars
    /\ [][\A c \in InFlight :
            (/\ c.op = "record" /\ inflight' = Completed(c) /\ nextCall' = nextCall
             /\ SessionRows(user_sessions, c.origin) = {})
            => /\ lastDone'.status = "ok"
               /\ Cardinality(SessionRows(user_sessions', c.origin)) = 1
               /\ PairTotals(user_sessions', product_interactions', c.origin, c.product)
                    = [hover |-> IF c.kind = "hover" THEN c.duration_ms ELSE 0,
                       views |-> IF c.kind = "view" THEN 1 ELSE 0,
                       clicks |-> IF c.kind = "click" THEN 1 ELSE 0]]_vars

\* A record has been written for an origin that never bootstrapped.
C7_Witness ==
    /\ lastDone.op = "record" /\ lastDone.status = "ok"
    /\ \E o \in Origins :
          /\ ensured[o].bootstraps = 0
          /\ Cardinality(SessionRows(user_sessions, o)) = 1
          /\ HasAggregate(user_sessions, product_interactions, o, 1)

(***************************************************************************)
(* Properties of the observers.                                            *)
(***************************************************************************)

RECURSIVE CopiesOf(_, _)
CopiesOf(S, b) ==
    IF S = {} THEN 0
    ELSE LET r == CHOOSE x \in S : TRUE
         IN  CopiesIn(r, b) + CopiesOf(S \ {r}, b)

\* Number of track-interaction requests of one type for product p in bag b.
SentOf(b, type, p) ==
    CopiesOf({r \in BagToSet(b) :
                 r.interaction_type = type /\ r.product_id = p}, b)

\* The step adds exactly the hover record of the given duration, or nothing.
HoverEmitted(p, start, emits) ==
    sent' = IF emits
            THEN sent (+) SetToBag({TrackRequest(p, "hover", TRUE, clock - start)})
            ELSE sent

\* A pointer-leave that closes a pending hover of the tracker / of product p
\* in the script / of the catalog card.
TrackerLeaves == page = "tracker" /\ hoverStartTime # 0 /\ hoverStartTime' = 0

ScriptLeaves(p) == page = "script" /\ hoverTimers[p] # 0 /\ hoverTimers'[p] = 0

CatalogLeaves ==
    page = "catalog" /\ catalogHoverStartTime # 0 /\ catalogHoverStartTime' = 0

\* A pointer-leave of the catalog card whose handler found the hover start
\* of its render set.
CatalogEndsHover == page = "catalog" /\ hoverEnds' # hoverEnds

\* C8 as stated: a leave emits no hover record when the hover lasted less
\* than the significance threshold and exactly one when it lasted the
\* threshold or longer (100 ms in ProductHoverTracker, 500 ms in
\* CLOESSAnalytics and ProductCard), read for observers that are able to
\* send at the time of the leave.
C8_HoverAtThreshold ==
    [][/\ TrackerLeaves =>
            \A p \in CardProducts :
               HoverEmitted(p, hoverStartTime,
                            clock - hoverStartTime >= HoverMinTracker)
       /\ \A p \in ScriptProducts :
            (ScriptLeaves(p) /\ isInitialized) =>
               HoverEmitted(p, hoverTimers[p],
                            clock - hoverTimers[p] >= HoverMinScript)
       /\ (CatalogLeaves /\ catalogInitialized) =>
            \A p \in CardProducts :
               HoverEmitted(p, catalogHoverStartTime,
                            clock - catalogHoverStartTime >= HoverMinCatalog)]_vars

\* C8, amended: a leave emits no hover record when the hover lasted the
\* significance threshold or less, and exactly one hover record, carrying
\* the elapsed duration, when it lasted strictly longer; CLOESSAnalytics
\* sends that one record only while its isInitialized flag is set and none
\* otherwise; ProductCard measures from the hover start its last render
\* read, sends only if isInitialized was set in that render, and sends no
\* hover record in any other step.
C8_HoverAboveThreshold ==
    [][/\ TrackerLeaves =>
            \A p \in CardProducts :
               HoverEmitted(p, hoverStartTime,
                            clock - hoverStartTime > HoverMinTracker)
       /\ \A p \in ScriptProducts :
            ScriptLeaves(p) =>
               HoverEmitted(p, hoverTimers[p],
                            /\ clock - hoverTimers[p] > HoverMinScript
                            /\ isInitialized)
       /\ CatalogEndsHover =>
            \A p \in CardProducts :
               HoverEmitted(p, catalogRendered.hoverStartTime,
                            /\ clock - catalogRendered.hoverStartTime
                                  > HoverMinCatalog
                            /\ catalogRendered.isInitialized)
       /\ (page = "catalog" /\ ~CatalogEndsHover) =>
            \A p \in CardProducts :
               SentOf(sent', "hover", p) = SentOf(sent, "hover", p)]_vars

\* The tracker has closed a hover one millisecond above its threshold and
\* has sent its record.
C8_Witness ==
    /\ page = "tracker"
    /\ hoverStartTime = 0
    /\ \E p \in CardProducts :
          /\ SentOf(sent, "hover", p) = 1
          /\ TrackRequest(p, "hover", TRUE, HoverMinTracker + 1) \in BagToSet(sent)

\* C9: once the intersection callback of a mounted ProductHoverTracker has
\* fired with isIntersecting true, exactly one view record has been sent
\* for its product, however often the callback fires again and whether or
\* not the view effect has run again in between.
C9_TrackerViewOnce ==
    /\ [](page = "tracker" =>
            \A p \in CardProducts :
               /\ SentOf(sent, "view", p) <= 1
               /\ crossings[p] >= 1 => SentOf(sent, "view", p) = 1)
    /\ [][page = "tracker" =>
            \A p \in CardProducts :
               crossings'[p] # crossings[p] =>
                  SentOf(sent', "view", p) = 1]_vars

\* The callback has fired with isIntersecting true at least twice and one
\* view record was sent.
C9_Witness ==
    /\ page = "tracker"
    /\ hasViewed
    /\ \E p \in CardProducts :
          crossings[p] >= 2 /\ SentOf(sent, "view", p) = 1

\* C10: in CLOESSAnalytics, in AnalyticsProductCard / withProductAnalytics
\* and in ProductCard, once the intersection callback has fired with
\* isIntersecting true for a product, exactly one view record has been sent
\* for it: later crossings add none and the first is not lost.
C10_ViewOncePerPage ==
    \A p \in TrackedProducts :
       (page \in {"script", "card", "catalog"} /\ crossings[p] >= 1)
          => SentOf(sent, "view", p) = 1

\* A click event is delivered for product p.
ClickOn(p) == clicks'[p] # clicks[p]

\* The step adds exactly one click record for p, or nothing.
ClickEmitted(p, emits) ==
    sent' = IF emits
            THEN sent (+) SetToBag({TrackRequest(p, "click", FALSE, 0)})
            ELSE sent

\* C11 as stated: every click on a tracked product, in ProductHoverTracker
\* and in CLOESSAnalytics, sends exactly one click record, whatever the
\* state of the session bootstrap, of a pending hover and of the view flag.
C11_ClickAlwaysEmits ==
    [][\A p \in TrackedProducts :
          (page \in {"tracker", "script"} /\ ClickOn(p)) => ClickEmitted(p, TRUE)]_vars

\* Session-bootstrap requests the page has sent.
Bootstraps == CopiesIn(SessionRequest, sent)

\* C12: a page sends at most one session-bootstrap request, however many
\* tracked products it renders.
C12_OneBootstrapPerPage == Bootstraps <= 1

\* A fetch of the page settles: a track-interaction fetch, or the session
\* bootstrap of the observer.
Settles == pending' < pending \/ (session = "pending" /\ session' # "pending")

\* C13: in ProductHoverTracker and CLOESSAnalytics no error ever escapes
\* the emit operations, and the step in which a fetch settles, rejected or
\* not, sends no further request and leaves the pending hover starts and
\* the already-viewed flag as they were.
C13_FailureSwallowed ==
    /\ [](page \in {"tracker", "script"} => ~thrown)
    /\ [][(page \in {"tracker", "script"} /\ Settles) =>
            /\ sent' = sent
            /\ UNCHANGED <<hoverStartTime, hasViewed, hoverTimers>>]_vars

\* The tracker's bootstrap and one of its track-interaction requests were
\* rejected, and nothing is left in flight.
C13_Witness ==
    /\ page = "tracker"
    /\ session = "network_error"
    /\ lost
    /\ pending = 0
    /\ hasViewed

\* C14: an ensureSession for an origin without a session whose geolocation
\* lookup gave nothing still creates the session row, with the location
\* unknown; a request that finds the durable store unavailable fails and
\* writes nothing.
C14_GeoBestEffortStoreFatal ==
    /\ [][\A c \in InFlight :
            (/\ c.op = "session" /\ inflight' = Completed(c) /\ nextCall' = nextCall
             /\ c.geo = UnknownCountry
             /\ SessionRows(user_sessions, c.origin) = {})
            => /\ lastDone'.status = "ok"
               /\ Len(user_sessions') = Len(user_sessions) + 1
               /\ Cardinality(SessionRows(user_sessions', c.origin)) = 1
               /\ user_sessions'[SessionId(user_sessions', c.origin)].country
                     = UnknownCountry]_vars
    /\ [][(Answered /\ ~StoreReached)
            => UNCHANGED <<user_sessions, product_interactions, applied, ensured>>]_vars

\* A bootstrap whose lookup failed has created the session of its origin,
\* and a later bootstrap has found the store unavailable.
C14_Witness ==
    /\ lastDone.op = "session" /\ lastDone.status = "Unavailable"
    /\ \E o \in Origins :
          /\ ensured[o].bootstraps = 1
          /\ Cardinality(SessionRows(user_sessions, o)) = 1
          /\ TheSession(o).country = UnknownCountry

\* How many hours ago row i was last touched.
AgeOf(i) == now - product_interactions[i].last_interaction

\* The aggregate rows last touched less than h hours ago, and those last
\* touched exactly h hours ago.
RowsInside(h) == {i \in DOMAIN product_interactions : AgeOf(i) < h}

RowsAtEdge(h) == {i \in DOMAIN product_interactions : AgeOf(i) = h}

\* The rows a read over the last h hours counts.
RowsWithin(h) ==
    IF closedWindow THEN RowsInside(h) \cup RowsAtEdge(h) ELSE RowsInside(h)

\* The rows of product p among the rows I, those of them that hold hover
\* time, and the hover time they hold together.
ProductRows(p, I) == {i \in I : product_interactions[i].product_id = p}

HoverRows(p, I) ==
    {i \in ProductRows(p, I) : product_interactions[i].total_hover_time_ms > 0}

HoverTimeOf(p, I) ==
    Total([i \in ProductRows(p, I) |->
              product_interactions[i].total_hover_time_ms], ProductRows(p, I))

\* C15: in the product rows the dashboard holds after a fetch, the hover
\* count is the number of the product's hovers the aggregates of the window
\* hold, the average hover duration is the cumulative hover duration
\* divided by the hover count, and is absent when the hover count is zero;
\* the cell shows N/A for the absent average, the average itself in ms
\* below one second, and 500ms for 2 hovers of 1000 ms in all and for 5
\* hovers of 2500 ms in all.
C15_AverageHover ==
    fetched.outcome = "ok" =>
        \A ps \in dashboard.products :
            LET I == RowsWithin(fetched.hours)
                count == Cardinality(HoverRows(ps.product_id, I))
                cum == HoverTimeOf(ps.product_id, I)
                avg == ps.avg_hover_duration
                cell == AvgHoverCell(ps)
            IN  /\ ps.total_hovers = count
                /\ count = 0 => avg = NoAverage /\ cell = Text("N/A", 0, 1)
                /\ count > 0 =>
                      /\ avg.den > 0
                      /\ avg.num * count = cum * avg.den
                      /\ cell.unit # "N/A"
                      /\ cum < 1000 * count =>
                            /\ cell.unit = "ms"
                            /\ cell.num * count = cum * cell.den
                /\ (count = 0 /\ cum = 0) => cell = Text("N/A", 0, 1)
                /\ (count = 2 /\ cum = 1000) => cell = Text("ms", 500, 1)
                /\ (count = 5 /\ cum = 2500) => cell = Text("ms", 500, 1)

\* The dashboard shows a product without hovers as N/A, a product with 2
\* hovers of 1000 ms in all as 500ms and a product with 5 hovers of 2500 ms
\* in all as 500ms.
C15_Witness ==
    /\ fetched.outcome = "ok"
    /\ \E ps \in dashboard.products :
          /\ ps.total_hovers = 0
          /\ HoverTimeOf(ps.product_id, RowsWithin(fetched.hours)) = 0
          /\ AvgHoverCell(ps) = Text("N/A", 0, 1)
    /\ \E ps \in dashboard.products :
          /\ ps.total_hovers = 2
          /\ HoverTimeOf(ps.product_id, RowsWithin(fetched.hours)) = 1000
          /\ AvgHoverCell(ps) = Text("ms", 500, 1)
    /\ \E ps \in dashboard.products :
          /\ ps.total_hovers = 5
          /\ HoverTimeOf(ps.product_id, RowsWithin(fetched.hours)) = 2500
          /\ AvgHoverCell(ps) = Text("ms", 500, 1)

\* The view, hover and click counts row i holds.
RowInteractions(i) ==
    product_interactions[i].total_views + product_interactions[i].total_clicks
    + (IF product_interactions[i].total_hover_time_ms > 0 THEN 1 ELSE 0)

\* The sessions of country g with a row among the rows I, and the
\* interactions a session has in the rows I.
SessionsOf(g, I) ==
    {sid \in DOMAIN user_sessions :
        /\ user_sessions[sid].country = g
        /\ \E i \in I : product_interactions[i].user_session_id = sid}

InteractionsOfSession(sid, I) ==
    LET rows == {i \in I : product_interactions[i].user_session_id = sid}
    IN  Total([i \in rows |-> RowInteractions(i)], rows)

\* C16: the country rows the dashboard holds after a fetch are one per
\* distinct country of the sessions active in the window; a row's session
\* count is the number of those sessions and is not zero, its total the sum
\* of their interactions, its average the total divided by the count, shown
\* with one decimal; two sessions in TN with 3 and 7 interactions give 2,
\* 10 and 5.0.
C16_CountryRollup ==
    fetched.outcome = "ok" =>
        LET I == RowsWithin(fetched.hours)
        IN  /\ \A g \in GeoResults :
                  Cardinality({cs \in dashboard.countries : cs.country = g})
                      = IF SessionsOf(g, I) = {} THEN 0 ELSE 1
            /\ \A cs \in dashboard.countries :
                  LET sids == SessionsOf(cs.country, I)
                      count == Cardinality(sids)
                      total == Total([sid \in sids |->
                                        InteractionsOfSession(sid, I)], sids)
                      cell == AvgInteractionsCell(cs)
                  IN  /\ count > 0
                      /\ cs.user_count = count
                      /\ cs.total_interactions = total
                      /\ cs.avg_interactions.den > 0
                      /\ cs.avg_interactions.num * count
                            = total * cs.avg_interactions.den
                      /\ cell.den = 10
                      /\ 2 * (cell.num * count - 10 * total) <= count
                      /\ 2 * (10 * total - cell.num * count) <= count
                      /\ (/\ cs.country = "TN" /\ count = 2
                          /\ {InteractionsOfSession(sid, I) : sid \in sids}
                                = {3, 7})
                            => /\ cs.user_count = 2
                               /\ cs.total_interactions = 10
                               /\ cs.avg_interactions = [num |-> 10, den |-> 2]
                               /\ cell = Text("", 50, 10)

\* The dashboard holds the row of TN for two sessions with 3 and 7
\* interactions: 2 sessions, 10 interactions, 5.0 on average.
C16_Witness ==
    /\ fetched.outcome = "ok"
    /\ {us.total_interactions : us \in {u \in dashboard.users : u.country = "TN"}}
          = {3, 7}
    /\ Cardinality({u \in dashboard.users : u.country = "TN"}) = 2
    /\ \E cs \in dashboard.countries :
          /\ cs.country = "TN"
          /\ cs.user_count = 2
          /\ cs.total_interactions = 10
          /\ AvgInteractionsCell(cs) = Text("", 50, 10)

\* The three lists count the rows R and no other: a product, session or
\* country is listed exactly when it has a row in R, and its total is that
\* of its rows in R.
ListsCount(R) ==
    LET sidOf(i) == product_interactions[i].user_session_id
    IN  /\ \A i \in R :
              /\ \E ps \in dashboard.products :
                    ps.product_id = product_interactions[i].product_id
              /\ \E us \in dashboard.users :
                    us.ip_address = user_sessions[sidOf(i)].ip_address
              /\ \E cs \in dashboard.countries :
                    cs.country = user_sessions[sidOf(i)].country
        /\ \A ps \in dashboard.products :
              LET rows == {i \in R : product_interactions[i].product_id
                                        = ps.product_id}
              IN  /\ rows # {}
                  /\ ps.total_interactions
                        = Total([i \in rows |-> RowInteractions(i)], rows)
        /\ \A us \in dashboard.users :
              LET rows == {i \in R : user_sessions[sidOf(i)].ip_address
                                        = us.ip_address}
              IN  /\ rows # {}
                  /\ us.total_interactions
                        = Total([i \in rows |-> RowInteractions(i)], rows)
        /\ \A cs \in dashboard.countries :
              LET rows == {i \in R : user_sessions[sidOf(i)].country
                                        = cs.country}
              IN  /\ rows # {}
                  /\ cs.total_interactions
                        = Total([i \in rows |-> RowInteractions(i)], rows)

C18_ReadsOnly ==
    /\ [][(outstanding' # outstanding \/ dashboard' # dashboard
              \/ fetched' # fetched \/ loading' # loading)
            => UNCHANGED <<user_sessions, product_interactions>>]_vars
    /\ [](\A range \in TimeRanges :
            RowsWithin(getHours(range)) = {} =>
                /\ QueryBySession(user_sessions, product_interactions, now,
                                  getHours(range), closedWindow) = {}
                /\ QueryByProduct(user_sessions, product_interactions, now,
                                  getHours(range), closedWindow) = {}
                /\ QueryByCountry(user_sessions, product_interactions, now,
                                  getHours(range), closedWindow) = {})
    /\ []((fetched.outcome = "ok" /\ RowsWithin(fetched.hours) = {})
            => dashboard = [users |-> {}, products |-> {}, countries |-> {},
                            totalSessions |-> 0, totalInteractions |-> 0])

\* The store has aggregates, none touched within the last hour; a fetch
\* for the last hour has succeeded and the dashboard holds empty lists.
C18_Witness ==
    /\ product_interactions # <<>>
    /\ RowsInside(1) \cup RowsAtEdge(1) = {}
    /\ fetched = [hours |-> 1, outcome |-> "ok"]
    /\ dashboard.users = {} /\ dashboard.products = {} /\ dashboard.countries = {}
    /\ dashboard.totalSessions = 0 /\ dashboard.totalInteractions = 0

(***************************************************************************)
(* Properties of the aggregate rows.                                       *)
(***************************************************************************)

\* The step in which the accepted record c is written.
Written(c) ==
    /\ c.op = "record"
    /\ inflight' = Completed(c)
    /\ nextCall' = nextCall
    /\ lastDone'.status = "ok"

\* C19: in every step each aggregate row stays in place with its session
\* and product, its view count, click count and cumulative hover duration
\* do not decrease, its last_interaction does not decrease and its
\* first_interaction does not change; the step that writes an accepted
\* record leaves in last_interaction the later of the stored value and the
\* record's occurredAt (occurredAt itself in a row it creates), whatever
\* the order in which the records are written; a row it creates gets its
\* first_interaction from the insert, occurredAt or the column default.
C19_MonotonicAggregate ==
    /\ [][\A i \in DOMAIN product_interactions :
            /\ i \in DOMAIN product_interactions'
            /\ product_interactions'[i].user_session_id
                  = product_interactions[i].user_session_id
            /\ product_interactions'[i].product_id
                  = product_interactions[i].product_id
            /\ product_interactions'[i].total_views
                  >= product_interactions[i].total_views
            /\ product_interactions'[i].total_clicks
                  >= product_interactions[i].total_clicks
            /\ product_interactions'[i].total_hover_time_ms
                  >= product_interactions[i].total_hover_time_ms
            /\ product_interactions'[i].last_interaction
                  >= product_interactions[i].last_interaction
            /\ product_interactions'[i].first_interaction
                  = product_interactions[i].first_interaction]_vars
    /\ [][\A c \in InFlight : Written(c) =>
            LET had == HasAggregate(user_sessions, product_interactions,
                                    c.origin, c.product)
                old == Aggregate(user_sessions, product_interactions,
                                 c.origin, c.product)
                new == Aggregate(user_sessions', product_interactions',
                                 c.origin, c.product)
            IN  /\ HasAggregate(user_sessions', product_interactions',
                                c.origin, c.product)
                /\ new.last_interaction
                      = IF had /\ old.last_interaction > c.occurredAt
                        THEN old.last_interaction ELSE c.occurredAt
                /\ ~had => new.first_interaction
                              = IF namesFirst THEN c.occurredAt ELSE now]_vars

\* A record that occurred before the row's last_interaction has just been
\* written into the only row of its product, after a later one.
C19_Witness ==
    /\ lastDone.op = "record" /\ lastDone.status = "ok"
    /\ Cardinality({i \in DOMAIN product_interactions :
                      product_interactions[i].product_id = lastDone.product}) = 1
    /\ \E i \in DOMAIN product_interactions :
          /\ product_interactions[i].product_id = lastDone.product
          /\ product_interactions[i].last_interaction > lastDone.occurredAt
          /\ product_interactions[i].first_interaction > lastDone.occurredAt

\* C20: the step that writes an accepted record adds 1 to the view count
\* for a view, 1 to the click count for a click and the duration to the
\* cumulative hover duration for a hover, on the row of the record's
\* (session, product) pair (a new row if there was none), leaves the other
\* two counters of that row as they were, and leaves every other aggregate
\* row as it was.
C20_OnlyOwnCounter ==
    [][\A c \in InFlight : Written(c) =>
        LET before == PairTotals(user_sessions, product_interactions,
                                 c.origin, c.product)
            after == PairTotals(user_sessions', product_interactions',
                                c.origin, c.product)
            row == IF HasAggregate(user_sessions, product_interactions,
                                   c.origin, c.product)
                   THEN PairRow(product_interactions,
                                SessionId(user_sessions, c.origin), c.product)
                   ELSE 0
        IN  /\ after.views = before.views + (IF c.kind = "view" THEN 1 ELSE 0)
            /\ after.clicks = before.clicks + (IF c.kind = "click" THEN 1 ELSE 0)
            /\ after.hover
                  = before.hover + (IF c.kind = "hover" THEN c.duration_ms ELSE 0)
            /\ Len(product_interactions')
                  = Len(product_interactions) + (IF row = 0 THEN 1 ELSE 0)
            /\ \A i \in DOMAIN product_interactions :
                  i # row => product_interactions'[i] = product_interactions[i]]_vars

\* A hover has just been added to the row that origin 1 already had for
\* the product, beside the row of origin 2: the first holds the hover next
\* to its view, the second is as it was stored.
C20_Witness ==
    /\ lastDone.op = "record" /\ lastDone.status = "ok"
    /\ lastDone.kind = "hover" /\ lastDone.product = 1
    /\ Len(product_interactions) = 2
    /\ product_interactions[1] = PriorAggregate(2, 0, 1, HoverMs)
    /\ PairTotals(user_sessions, product_interactions, 1, 1)
          = [hover |-> HoverMs, views |-> 1, clicks |-> 0]
    /\ PairTotals(user_sessions, product_interactions, 2, 1)
          = [hover |-> HoverMs, views |-> 0, clicks |-> 1]

(***************************************************************************)
(* Properties of the pointer events.                                       *)
(***************************************************************************)

\* The products of the page's observer, and the pending hover start it
\* holds for product p (0: none).
ProductsOf(pg) == IF pg = "tracker" THEN CardProducts ELSE ScriptProducts

StartOf(p) == IF page = "tracker" THEN hoverStartTime ELSE hoverTimers[p]

\* The hover records of product p in bag b, and the step that sends one of
\* duration d.
HoverRecords(b, p) == SentOf(b, "hover", p)

SendsHover(p) == HoverRecords(sent', p) > HoverRecords(sent, p)

\* C21: the observer holds one start per product, which is the time of the
\* latest enter that no leave has followed; an enter while a start is
\* pending sends nothing, throws nothing and puts the time of that enter in
\* its place; the hover record a leave sends carries the time elapsed since
\* the latest enter.
C21_LatestEnterCounts ==
    /\ [](\A p \in ProductsOf(page) : StartOf(p) = entered[p])
    /\ [][\A p \in ProductsOf(page) :
            (lastHover' = [event |-> "reenter", product |-> p]
             /\ <<entered, lastHover>>' # <<entered, lastHover>>)
            => /\ sent' = sent
               /\ ~thrown'
               /\ StartOf(p)' = clock]_vars
    /\ [][\A p \in ProductsOf(page) :
            SendsHover(p) =>
                sent' = sent (+) SetToBag({TrackRequest(p, "hover", TRUE,
                                                        clock - entered[p])})]_vars

\* A second enter has arrived, later than the first, before any leave.
C21_Witness ==
    \E p \in ProductsOf(page) :
        /\ lastHover = [event |-> "reenter", product |-> p]
        /\ unused[p] = 2
        /\ clock > 1
        /\ StartOf(p) = clock

\* A pointer-leave on product p handled by the page's observer.
LeaveOf(p) ==
    \/ page = "tracker" /\ Tracker_handleMouseLeave(p)
    \/ page = "script" /\ trackProductHoverEnd(p)

\* C22: a leave on a product for which no enter is open (none came before,
\* or a leave already followed it) sends no request, throws nothing and
\* leaves the observer's state as it was; after every leave, whether it
\* sent a hover record or not, the product has no pending start.
C22_StrayLeaveIgnored ==
    /\ [][\A p \in ProductsOf(page) :
            (LeaveOf(p) /\ entered[p] = 0)
            => /\ sent' = sent
               /\ ~thrown'
               /\ UNCHANGED <<pageVars, trackerVars, scriptVars>>]_vars
    /\ [][\A p \in ProductsOf(page) : LeaveOf(p) => StartOf(p)' = 0]_vars

\* A leave has arrived for a product with no enter open, late enough for a
\* hover counted from time 0 to pass the threshold, on an observer that is
\* able to send; nothing was sent for it and no error was raised.
C22_Witness ==
    \E p \in ProductsOf(page) :
        /\ lastHover = [event |-> "stray", product |-> p]
        /\ clock > HoverMin(page)
        /\ page = "script" => isInitialized
        /\ HoverRecords(sent, p) = 0
        /\ StartOf(p) = 0
        /\ ~thrown

\* C23: a step that sends a hover record for a product is a leave on that
\* product while an enter is open for it, and it closes that enter; so the
\* hover records sent never outnumber the enters, and no enter is counted
\* in two records.
C23_OneHoverPerEnter ==
    /\ [](\A p \in ProductsOf(page) : unused[p] >= 0)
    /\ [][\A p \in ProductsOf(page) :
            SendsHover(p)
            => /\ LeaveOf(p)
               /\ entered[p] # 0
               /\ entered'[p] = 0
               /\ HoverRecords(sent', p) = HoverRecords(sent, p) + 1]_vars

\* Two enters and two leaves on a product, of which one hover passed the
\* threshold: one hover record, and a further leave has sent nothing.
C23_Witness ==
    \E p \in ProductsOf(page) :
        /\ lastHover = [event |-> "stray", product |-> p]
        /\ unused[p] = 1
        /\ HoverRecords(sent, p) = 1

\* C24: every track-interaction request a page has sent is a view, a hover
\* or a click; a hover carries a duration above zero, a view or a click
\* carries none (duration_ms null).
C24_DurationOnlyOnHover ==
    \A r \in BagToSet(sent) :
        r.url = TrackUrl =>
            /\ r.interaction_type \in {"view", "hover", "click"}
            /\ r.has_duration <=> r.interaction_type = "hover"
            /\ r.has_duration => r.duration_ms > 0
            /\ ~r.has_duration => r.duration_ms = 0

\* A page has sent a hover record and a view or click record.
C24_Witness ==
    /\ \E r \in BagToSet(sent) :
          r.interaction_type = "hover" /\ r.duration_ms > HoverMin(page)
    /\ \E r \in BagToSet(sent) : r.interaction_type \in {"view", "click"}

\* How many rows of A equal r.
CountOf(A, r) == Cardinality({i \in DOMAIN A : A[i] = r})

\* The step removes product p from the catalog.
Deletes(p) == p \in products /\ p \notin products'

\* C25: a step that deletes a product leaves no aggregate row that
\* references it, leaves every aggregate row of the other products as it
\* was (each as often as before, and no row is new), and leaves the session
\* rows unchanged; and no step of a bootstrap, a record, a query or a
\* deletion removes a session row: each session row is still there, at its
\* place and for its origin, after the step.
C25_CascadeOnly ==
    [][/\ \A p \in ProductRefs :
            Deletes(p)
            => /\ \A i \in DOMAIN product_interactions' :
                     product_interactions'[i].product_id # p
               /\ \A i \in DOMAIN product_interactions :
                     LET row == product_interactions[i]
                     IN  row.product_id # p
                         => CountOf(product_interactions', row)
                              = CountOf(product_interactions, row)
               /\ \A i \in DOMAIN product_interactions' :
                     CountOf(product_interactions, product_interactions'[i]) > 0
               /\ user_sessions' = user_sessions
       /\ Len(user_sessions') >= Len(user_sessions)
       /\ \A i \in DOMAIN user_sessions :
             /\ user_sessions'[i].ip_address = user_sessions[i].ip_address
             /\ user_sessions'[i].first_seen = user_sessions[i].first_seen]_vars

\* A record for product 1 was written last, product 1 has been deleted since
\* and no row references it, while the row of product 2 and the session
\* rows are still there.
C25_Witness ==
    /\ lastDone.op = "record" /\ lastDone.status = "ok" /\ lastDone.product = 1
    /\ 1 \notin products
    /\ \A i \in DOMAIN product_interactions : product_interactions[i].product_id # 1
    /\ \E i \in DOMAIN product_interactions : product_interactions[i].product_id = 2
    /\ user_sessions # <<>>

\* C26: the popup becomes shown only in a step taken while the gif is
\* loaded and the grid is in view and has been in view without a break for
\* at least the delay; so a timer running when the grid leaves view does
\* not show the popup.
C26_PopupAfterTwoSeconds ==
    [][(~showChatbot /\ showChatbot')
          => /\ gifLoaded
             /\ showSellerBot
             /\ visibleSince # 0
             /\ clock >= visibleSince + ChatbotDelay]_vars

\* The pages whose requests go through a CLOESSAnalytics instance, and the
\* isInitialized flag of that instance.
InstancePages == {"script", "card"}
InstanceFlag == IF page = "script" THEN isInitialized ELSE instanceInitialized
Tracks(b) == {r \in BagToSet(b) : r.url = TrackUrl}
BootstrapFailed == session \in {"http_error", "network_error"}

\* A step taken while the flag is not set sends no track-interaction
\* request, and a failed bootstrap stays failed with the flag unset.
GateKept ==
    /\ ~InstanceFlag
         => \A r \in Tracks(sent') : CopiesIn(r, sent') = CopiesIn(r, sent)
    /\ BootstrapFailed => (session' = session /\ ~InstanceFlag')

\* C27: on a page that tracks through a CLOESSAnalytics instance, a
\* track-interaction request has been sent only if the bootstrap request
\* has returned ok, and the flag is set only then; a step taken while the
\* flag is not set sends no track-interaction request; and once the
\* bootstrap has failed or returned a non-ok status it stays so and the
\* flag stays unset.
C27_NoTrackBeforeBootstrap ==
    /\ [](page \in InstancePages
            => /\ Tracks(sent) # {} => session = "ok"
               /\ InstanceFlag => session = "ok"
               /\ BootstrapFailed => ~InstanceFlag)
    /\ [][(page \in InstancePages) => GateKept]_vars

\* The script's bootstrap returned a non-ok status; a click and a crossing
\* into view were delivered and nothing was sent for them.
C27_Witness ==
    /\ page = "script"
    /\ session = "http_error"
    /\ \E p \in ScriptProducts : clicks[p] # 0 /\ crossings[p] # 0
    /\ Tracks(sent) = {}
    /\ clock > 1

\* C28: each isInitialized flag a tracker exposes (of the CLOESSAnalytics
\* instance of the script and of the hook, of the useCLOESSAnalytics hook
\* and of the useProductAnalytics hook) is set only if the page's bootstrap
\* request has received an ok response.
C28_FlagOnlyAfterOk ==
    /\ isInitialized => session = "ok"
    /\ instanceInitialized => session = "ok"
    /\ hookInitialized => session = "ok"
    /\ catalogInitialized => session = "ok"

\* C29: once the user has changed the time range, a fetch issued for the
\* selected range has been answered ok and no fetch is outstanding, the
\* dashboard shows the answer for the selected range.
C29_ShowsSelectedRange ==
    (reselected /\ current /\ outstanding = EmptyBag)
        => /\ fetched.hours = getHours(timeRange)
           /\ dashboard = Response(AllOk, getHours(timeRange))

====
